---- MODULE Spec2Model ----
(***************************************************************************)
(* Model of the Grok provider adapter of grok-cli                          *)
(* (packages/core/src/core/grokContentGenerator.ts): the response          *)
(* normalizer convertToGeminiResponse and the streaming normalizer         *)
(* convertStreamToGeminiFormat with their embedded tool-call extraction.   *)
(*                                                                         *)
(* Text.  A JavaScript string is a sequence of tokens.  Every token is a   *)
(* record [ch, at]: ch names the literal piece of text the token stands    *)
(* for and at is the token's position in the backend reply (so that a      *)
(* marker occurrence keeps its identity while the buffer is edited).       *)
(*                                                                         *)
(*    ch     text                                                          *)
(*    "a"    a               one word character (\w)                       *)
(*    " "    one blank       (\s)                                          *)
(*    "FO"   [function_call]                                               *)
(*    "FC"   [/function_call]                                              *)
(*    "J"    {"action":"foo","action_input":{"x":1}}                       *)
(*    "N"    {}              valid JSON, neither action nor action_input   *)
(*    "TO"   [tool_call:                                                   *)
(*    "TB"   f for p 'v'     only ever written right after "TO"            *)
(*    "RB"   ]                                                             *)
(*    "CW"   Calling function                (without the blank after it)  *)
(*                                                                         *)
(* The regular expressions of the source are implemented over these        *)
(* tokens with the meaning they have on the text the tokens stand for.     *)
(***************************************************************************)
EXTENDS Integers, Sequences, FiniteSets, TLC

\* Bounds of the model.
MaxSegs == 2        \* segments (words, blanks, markers) in one backend reply
MaxChunks == 3      \* chunks of one stream before its finishing chunk

VARIABLES
    content,             \* message.content of the backend reply (tokens)
    toolCalls,           \* message.tool_calls / delta.tool_calls of the reply
    response,            \* result of convertToGeminiResponse, or NoResponse
    accumulatedContent,  \* the stream's accumulation buffer
    pos,                 \* tokens of content already delivered in chunks
    nativeSent,          \* the tool_calls delta has been delivered
    chunks,              \* chunks consumed by the for-await loop
    deltas,              \* the deltas yielded so far
    streamDone,          \* the source stream is exhausted
    now,                 \* Date.now()
    request,             \* the GenerateContentParameters handed to the adapter
    backendRequests,     \* arguments of client.chat.completions.create so far
    outcome,             \* how the adapter operation called last has ended
    aborted,             \* request.config.abortSignal.aborted
    provider,            \* config.getProvider()
    model,               \* config.getModel()
    layout,              \* what the discovered files are (see FileOf)
    fileCount,           \* sortedFiles.length; sortedFiles[i - 1] is file i
    pc,                  \* where execute of ReadManyFilesTool stands
    path,                \* the read that execute has taken
    cursor,              \* position of the file-reading loop
    responseText,        \* the model's reply to the selection prompt
    selectedFiles,       \* files of the budgeted or the fallback read
    contentParts,        \* content parts of the result so far
    skippedFiles,        \* skip records of the result so far
    totalTokens,         \* token accumulator of the budgeted read
    signal,              \* signal.aborted of execute
    params,              \* the params execute is called with
    entries,             \* what glob finds: regular files and stray paths
    result,              \* the ToolResult execute has returned
    effects,             \* the collaborators execute has called so far
    todos,               \* TodoManagerTool.todos, in the order of the map
    currentTodoId,       \* TodoManagerTool.currentTodoId
    todoResult,          \* llmContent of the last result of TodoManagerTool.execute
    todoClock,           \* the time of the next call of TodoManagerTool.execute
    todoCall,            \* action, todoId and content of the last call of TodoManagerTool.execute
    gitParams,           \* the params GitTool is called with
    gitPc,               \* where GitTool.execute is
    gitSignal,           \* the signal given to GitTool.execute and its abort listener
    gitProcess,          \* the spawned git process
    gitPromise,          \* the promise of executeGitCommand
    gitResult,           \* llmContent of the result of GitTool.execute
    gitConfirmation,     \* what shouldConfirmExecute has returned
    invocations          \* the streams or the budgeted reads that are in flight

\* The variables of the adapter's request side.
adapterVars == <<request, backendRequests, outcome, aborted>>

\* The variables of ReadManyFilesTool.
pipelineVars == <<provider, model, layout, fileCount, pc, path, cursor,
                  responseText, selectedFiles, contentParts, skippedFiles,
                  totalTokens, signal, params, entries, result, effects>>

\* The variables of the tools, which no step of the adapter changes.
todoVars == <<todos, currentTodoId, todoResult, todoClock, todoCall>>
gitVars == <<gitParams, gitPc, gitSignal, gitProcess, gitPromise, gitResult,
             gitConfirmation>>
toolVars == <<pipelineVars, todoVars, gitVars, invocations>>

vars == <<content, toolCalls, response, accumulatedContent, pos, nativeSent,
          chunks, deltas, streamDone, now, adapterVars, toolVars>>

Undefined == "<undefined>"
NoResponse == [parts |-> <<>>, text |-> <<>>, made |-> FALSE]

\* No stream and no budgeted read is in flight.
NoInvocations == [kind |-> "none"]

Min(S) == CHOOSE x \in S : \A y \in S : x <= y
Max(S) == CHOOSE x \in S : \A y \in S : x >= y

----------------------------------------------------------------------------
\* Strings

Str(s) == [i \in 1..Len(s) |-> s[i].ch]

RECURSIVE KeepFrom(_, _, _)
KeepFrom(s, dropped, i) ==
    IF i > Len(s) THEN <<>>
    ELSE (IF i \in dropped THEN <<>> ELSE <<s[i]>>) \o KeepFrom(s, dropped, i + 1)

\* s with the tokens at the positions in dropped removed (replace(re, '')).
Remove(s, dropped) == KeepFrom(s, dropped, 1)

\* First index >= i of s that holds no blank (Len(s)+1 when there is none).
RECURSIVE SkipBlanks(_, _)
SkipBlanks(s, i) ==
    IF i <= Len(s) /\ s[i].ch = " " THEN SkipBlanks(s, i + 1) ELSE i

\* First index >= i of s that holds no word character.
RECURSIVE SkipWord(_, _)
SkipWord(s, i) ==
    IF i <= Len(s) /\ s[i].ch = "a" THEN SkipWord(s, i + 1) ELSE i

\* String.prototype.trim
RECURSIVE TrimEnd(_)
TrimEnd(s) ==
    IF s # <<>> /\ s[Len(s)].ch = " " THEN TrimEnd(SubSeq(s, 1, Len(s) - 1)) ELSE s

Trim(s) == LET i == SkipBlanks(s, 1) IN TrimEnd(SubSeq(s, i, Len(s)))

\* String.prototype.includes for a literal that is one token
Includes(s, lit) == \E i \in 1..Len(s) : s[i].ch = lit

\* includes('Calling function '): the literal ends with a blank
IncludesCalling(s) == \E i \in 1..(Len(s) - 1) : s[i].ch = "CW" /\ s[i + 1].ch = " "

----------------------------------------------------------------------------
\* Regular expressions

\* matchAll(/\[function_call\](.*?)\[\/function_call\]/gs): the matches from
\* index i on, in order, each <<open, close>>: the leftmost opening marker and
\* the first closing marker after it (non-greedy, "." matches anything).
RECURSIVE FunctionCallMatchesFrom(_, _)
FunctionCallMatchesFrom(s, i) ==
    LET opens == {p \in i..Len(s) : s[p].ch = "FO"} IN
    IF opens = {} THEN <<>>
    ELSE LET p == Min(opens)
             closes == {q \in (p + 1)..Len(s) : s[q].ch = "FC"}
         IN IF closes = {} THEN <<>>
            ELSE <<<<p, Min(closes)>>>> \o FunctionCallMatchesFrom(s, Min(closes) + 1)

FunctionCallMatches(s) == FunctionCallMatchesFrom(s, 1)

\* The positions replace(/\[function_call\].*?\[\/function_call\]/gs, '') deletes.
FunctionCallSpans(s) ==
    LET ms == FunctionCallMatches(s) IN
    UNION {ms[k][1]..ms[k][2] : k \in 1..Len(ms)}

\* Faulty variant of ToolCallMatchesFrom: the closing "]" is not required.
RECURSIVE ToolCallMatchesUnclosed(_, _)
ToolCallMatchesUnclosed(s, i) ==
    IF i > Len(s) THEN <<>>
    ELSE IF s[i].ch # "TO" THEN ToolCallMatchesUnclosed(s, i + 1)
    ELSE LET w == SkipBlanks(s, i + 1)
             b == SkipWord(s, w)
         IN IF b <= Len(s) /\ s[b].ch = "TB"
            THEN <<<<i, b, IF b = w THEN "f" ELSE "af">>>>
                     \o ToolCallMatchesUnclosed(s, b + 1)
            ELSE ToolCallMatchesUnclosed(s, i + 1)

\* matchAll(/\[tool_call:\s*(\w+)\s+for\s+(\w+)\s+['"]([^'"]+)['"]\]/g) from
\* index i on: "TO", blanks, word characters that run into the name, "TB", "RB".
\* Each match is <<open, close, name>>.
RECURSIVE ToolCallMatchesFrom(_, _)
ToolCallMatchesFrom(s, i) ==
    IF i > Len(s) THEN <<>>
    ELSE IF s[i].ch # "TO" THEN ToolCallMatchesFrom(s, i + 1)
    ELSE LET w == SkipBlanks(s, i + 1)
             b == SkipWord(s, w)
         IN IF b + 1 <= Len(s) /\ s[b].ch = "TB" /\ s[b + 1].ch = "RB"
            THEN <<<<i, b + 1, IF b = w THEN "f" ELSE "af">>>>
                     \o ToolCallMatchesFrom(s, b + 2)
            ELSE ToolCallMatchesFrom(s, i + 1)

ToolCallMatches(s) == ToolCallMatchesFrom(s, 1)

\* The tokens whose text ends with the character "]" (and holds no other).
EndsBracket(c) == c \in {"RB", "FO", "FC"}

\* The positions replace(/\s*\[tool_call:[^\]]+\]\s*/g, '') deletes from index i
\* on: the blanks before "[tool_call:", one or more characters other than "]",
\* the first "]" (which may be the last character of a [function_call] or
\* [/function_call] marker) and the blanks after it.
RECURSIVE ToolCallSpansFrom(_, _)
ToolCallSpansFrom(s, i) ==
    IF i > Len(s) THEN {}
    ELSE LET t == SkipBlanks(s, i)
             ends == IF t <= Len(s) /\ s[t].ch = "TO"
                     THEN {u \in (t + 1)..Len(s) : EndsBracket(s[u].ch)}
                     ELSE {}
         IN IF ends # {} /\ ~(Min(ends) = t + 1 /\ s[t + 1].ch = "RB")
            THEN LET e == SkipBlanks(s, Min(ends) + 1) - 1
                 IN (i..e) \cup ToolCallSpansFrom(s, e + 1)
            ELSE ToolCallSpansFrom(s, i + 1)

ToolCallSpans(s) == ToolCallSpansFrom(s, 1)

\* matchAll(/Calling function (\w+)/g) from index i on: <<open, close>>.
RECURSIVE SimpleCallMatchesFrom(_, _)
SimpleCallMatchesFrom(s, i) ==
    IF i + 2 > Len(s) THEN <<>>
    ELSE IF s[i].ch = "CW" /\ s[i + 1].ch = " " /\ s[i + 2].ch = "a"
         THEN <<<<i, SkipWord(s, i + 2) - 1>>>>
                  \o SimpleCallMatchesFrom(s, SkipWord(s, i + 2))
         ELSE SimpleCallMatchesFrom(s, i + 1)

SimpleCallMatches(s) == SimpleCallMatchesFrom(s, 1)

\* The positions replace(/\s*Calling function \w+\s*/g, '') deletes from i on.
RECURSIVE SimpleCallSpansFrom(_, _)
SimpleCallSpansFrom(s, i) ==
    IF i > Len(s) THEN {}
    ELSE LET t == SkipBlanks(s, i) IN
         IF t + 2 <= Len(s) /\ s[t].ch = "CW" /\ s[t + 1].ch = " " /\ s[t + 2].ch = "a"
         THEN LET e == SkipBlanks(s, SkipWord(s, t + 2)) - 1
              IN (i..e) \cup SimpleCallSpansFrom(s, e + 1)
         ELSE SimpleCallSpansFrom(s, i + 1)

SimpleCallSpans(s) == SimpleCallSpansFrom(s, 1)

----------------------------------------------------------------------------
\* JSON and JavaScript values

EmptyObject == [type |-> "object", fields |-> {}]

\* JSON.parse(text.trim()) of a block's payload: ok is FALSE when it throws.
JsonParse(payload) ==
    LET t == Trim(payload) IN
    IF Len(t) = 1 /\ t[1].ch = "J"
    THEN [ok |-> TRUE, action |-> "foo",
          action_input |-> [type |-> "object", fields |-> {<<"x", "1">>}]]
    ELSE IF Len(t) = 1 /\ t[1].ch = "N"
    THEN [ok |-> TRUE, action |-> Undefined,
          action_input |-> [type |-> "undefined", fields |-> {}]]
    ELSE [ok |-> FALSE, action |-> Undefined,
          action_input |-> [type |-> "undefined", fields |-> {}]]

\* v || {} for a value that is an object or undefined
OrEmptyObject(v) == IF v.type = "undefined" THEN EmptyObject ELSE v

\* `${prefix}_${Date.now()}_${Math.random().toString(36).substr(2, 9)}`: the
\* k-th random draw of a response or stream is the token k (two draws of nine
\* base-36 digits are taken to differ).
RandomId(prefix, time, k) == [scheme |-> prefix, time |-> time, rnd |-> k]

FunctionCallPart(id, name, args, src) ==
    [kind |-> "functionCall", id |-> id, name |-> name, args |-> args, src |-> src]

TextPart(s) == [kind |-> "text", text |-> s]

IsCall(p) == p.kind = "functionCall"
IsText(p) == p.kind = "text"

\* The function calls among parts (the functionCalls array of the source).
CallsOf(parts) == SelectSeq(parts, IsCall)

----------------------------------------------------------------------------
\* Extraction shared by the two normalizers

\* replace(/\[function_call\].*?\[\/function_call\]/gs, '').trim()
StripFunctionCalls(s) == Trim(Remove(s, FunctionCallSpans(s)))

\* replace(/\s*\[tool_call:[^\]]+\]\s*/g, '').trim()
StripToolCalls(s) == Trim(Remove(s, ToolCallSpans(s)))

\* replace(/\s*Calling function \w+\s*/g, '').trim()
StripSimpleCalls(s) == Trim(Remove(s, SimpleCallSpans(s)))

\* The for-loop over the block matches ms[k..] of s: a match whose payload
\* JSON.parse rejects is skipped (the catch only warns).  n random draws were
\* made before.
RECURSIVE BlockCallsFrom(_, _, _, _, _, _)
BlockCallsFrom(s, ms, k, prefix, time, n) ==
    IF k > Len(ms) THEN <<>>
    ELSE LET data == JsonParse(SubSeq(s, ms[k][1] + 1, ms[k][2] - 1)) IN
         IF data.ok
         THEN <<FunctionCallPart(RandomId(prefix, time, n + 1), data.action,
                                 OrEmptyObject(data.action_input), s[ms[k][1]].at)>>
                  \o BlockCallsFrom(s, ms, k + 1, prefix, time, n + 1)
         ELSE BlockCallsFrom(s, ms, k + 1, prefix, time, n)

BlockCalls(s, prefix, time, n) ==
    BlockCallsFrom(s, FunctionCallMatches(s), 1, prefix, time, n)

\* The for-loop over the inline matches of s: args is { [paramName]: paramValue }.
InlineCalls(s, prefix, time, n) ==
    LET ms == ToolCallMatches(s) IN
    [k \in 1..Len(ms) |->
        FunctionCallPart(RandomId(prefix, time, n + k), ms[k][3],
                         [type |-> "object", fields |-> {<<"p", "v">>}],
                         s[ms[k][1]].at)]

\* The for-loop over the "Calling function X" matches of s: args is {}.
SimpleCalls(s, prefix, time, n) ==
    LET ms == SimpleCallMatches(s) IN
    [k \in 1..Len(ms) |->
        FunctionCallPart(RandomId(prefix, time, n + k), "a", EmptyObject,
                         s[ms[k][1]].at)]

\* JSON.parse(arguments || '{}') of a native tool call
NativeArgs(arguments) ==
    IF arguments = "" THEN EmptyObject
    ELSE [type |-> "object", fields |-> {<<"q", "1">>}]

----------------------------------------------------------------------------
\* convertToGeminiResponse

\* Faulty variant of InitialCleanedText: the text is trimmed whether or not a marker
\* was found.
InitialTrimmedText(c) == Trim(c)

\* let cleanedTextContent = message.content || ''
InitialCleanedText(c) == c

\* The native tool calls of a complete reply: the backend's id is passed on.
ResponseNativeCalls(tcs) ==
    LET fs == SelectSeq(tcs, LAMBDA tc : tc.type = "function") IN
    [k \in 1..Len(fs) |->
        FunctionCallPart(fs[k].id, fs[k].name, NativeArgs(fs[k].arguments), 0)]

\* if (cleanedTextContent) parts.push({ text: cleanedTextContent })
TextParts(cleaned) == IF cleaned # <<>> THEN <<TextPart(cleaned)>> ELSE <<>>

\* The parts pushed by the three marker passes, in the order of the pushes.
ResponseExtractedCalls(c, time) ==
    LET blocks == IF Includes(c, "FO") THEN BlockCalls(c, "grok", time, 0) ELSE <<>>
        inline == IF Includes(c, "TO")
                  THEN InlineCalls(c, "grok_mini", time, Len(blocks)) ELSE <<>>
        simple == IF IncludesCalling(c)
                  THEN SimpleCalls(c, "grok_simple", time, Len(blocks) + Len(inline))
                  ELSE <<>>
    IN blocks \o inline \o simple

\* cleanedTextContent after the three passes: each pass that runs assigns it
\* from message.content.
ResponseCleanedText(c) ==
    LET c1 == IF Includes(c, "FO") THEN StripFunctionCalls(c) ELSE InitialCleanedText(c)
        c2 == IF Includes(c, "TO") THEN StripToolCalls(c) ELSE c1
    IN IF IncludesCalling(c) THEN StripSimpleCalls(c) ELSE c2

\* Where the text part is pushed among the parts.
ResponseParts(extracted, cleaned, native) ==
    extracted \o TextParts(cleaned) \o native

convertToGeminiResponse(c, tcs, time) ==
    LET cleaned == ResponseCleanedText(c) IN
    [parts |-> ResponseParts(ResponseExtractedCalls(c, time), cleaned,
                             ResponseNativeCalls(tcs)),
     text |-> cleaned,
     made |-> TRUE]

----------------------------------------------------------------------------
\* convertStreamToGeminiFormat

\* The id of a streamed tool call that carries none (undefined).
NoId == [scheme |-> "undefined", time |-> 0, rnd |-> 0]

\* The thought part pushed for delta.reasoning_content
ThoughtPart == [kind |-> "thought", text |-> "**Thinking** r"]

\* id: toolCall.id || `tool_${Date.now()}`
StreamNativeId(id, time) ==
    IF id = NoId THEN [scheme |-> "tool", time |-> time, rnd |-> 0] ELSE id

\* name: toolCall.function.name || ''
StreamNativeName(name) == IF name = Undefined THEN "" ELSE name

\* The native tool calls of one delta.
StreamNativeCalls(tcs, time) ==
    LET fs == SelectSeq(tcs, LAMBDA tc : tc.type = "function") IN
    [k \in 1..Len(fs) |->
        FunctionCallPart(StreamNativeId(fs[k].id, time), StreamNativeName(fs[k].name),
                         NativeArgs(fs[k].arguments), 0)]

\* Faulty variant of AccumulatedAfterBlocks: the cleaned buffer is not written back.
AccumulatedKept(acc) == acc

\* accumulatedContent = cleanedAccumulated, after the block pass
AccumulatedAfterBlocks(acc) == StripFunctionCalls(acc)

\* accumulatedContent = cleanedAccumulated, after the inline pass
AccumulatedAfterToolCalls(acc) == StripToolCalls(acc)

\* Faulty variant of ShouldYield: every chunk yields a delta.
YieldAlways(parts) == TRUE

\* if (parts.length > 0) yield ...
ShouldYield(parts) == Len(parts) > 0

\* The body of the for-await loop for one chunk whose choices[0].delta is
\* delta = [content, reasoning, tool_calls]; acc is accumulatedContent before
\* it and n the number of random draws made so far.  The result holds
\* accumulatedContent after it, the parts and the text of the delta.
HandleChunk(acc, delta, time, n) ==
    LET thought == IF delta.reasoning THEN <<ThoughtPart>> ELSE <<>>
        acc1 == acc \o delta.content
        blockPass == Includes(acc1, "FO") /\ Includes(acc1, "FC")
        blocks == IF blockPass THEN BlockCalls(acc1, "grok_stream", time, n) ELSE <<>>
        acc2 == IF blockPass THEN AccumulatedAfterBlocks(acc1) ELSE acc1
        text1 == IF blockPass THEN StripFunctionCalls(delta.content) ELSE delta.content
        inlinePass == Includes(acc2, "TO")
        inline == IF inlinePass
                  THEN InlineCalls(acc2, "grok_mini_stream", time, n + Len(blocks))
                  ELSE <<>>
        acc3 == IF inlinePass THEN AccumulatedAfterToolCalls(acc2) ELSE acc2
        text2 == IF inlinePass THEN StripToolCalls(delta.content) ELSE text1
    IN [acc |-> acc3,
        parts |-> thought \o blocks \o inline \o TextParts(text2)
                      \o StreamNativeCalls(delta.tool_calls, time),
        text |-> text2]

----------------------------------------------------------------------------
\* Backend replies

\* The segments a reply is written from.
Segments ==
    { <<"a">>, <<" ">>,
      <<"FO", "J", "FC">>,          \* a well-formed block
      <<"FO", "a", "FC">>,          \* a block whose payload is not JSON
      <<"FO", "N", "FC">>,          \* a block whose JSON names no action
      <<"TO", "TB", "RB">>,         \* an inline marker
      <<"TO">>,                     \* an inline marker that is never closed
      <<"CW", " ", "a">> }          \* Calling function a

RECURSIVE Flatten(_)
Flatten(ss) == IF ss = <<>> THEN <<>> ELSE Head(ss) \o Flatten(Tail(ss))

\* The reply texts: at most MaxSegs segments, each token with its position.
Replies ==
    { LET t == Flatten(ss) IN [i \in 1..Len(t) |-> [ch |-> t[i], at |-> i]] :
        ss \in UNION {[1..n -> Segments] : n \in 0..MaxSegs} }

NativeCall(id, name, arguments) ==
    [type |-> "function", id |-> id, name |-> name, arguments |-> arguments]

BackendId(k) == [scheme |-> "call", time |-> 0, rnd |-> k]

\* The native tool-call lists of a reply: none, or two calls, each with the
\* backend's id and name.
NativeReplies ==
    { <<>>,
      <<NativeCall(BackendId(1), "g", "q"), NativeCall(BackendId(2), "h", "")>> }

\* A streamed tool call whose delta carries neither id nor name.
Bare(tc) == NativeCall(NoId, Undefined, tc.arguments)

----------------------------------------------------------------------------
\* The request side: GenerateContentParameters and convertToOpenAIRequest.
\* The strings of a request are sequences of characters.

Hi == <<"h", "i">>
FunctionPrefix == <<"F", "u", "n", "c", "t", "i", "o", "n", " ">>
ExecutedSuffix == <<" ", "e", "x", "e", "c", "u", "t", "e", "d">>
CallingPrefix == <<"C", "a", "l", "l", "i", "n", "g", " ",
                   "f", "u", "n", "c", "t", "i", "o", "n", " ">>

\* Parts: { text }, { functionResponse: { name } }, { functionCall: { name } }
\* and a part with none of the three (inline data).
TextOnly(t) == [kind |-> "text", text |-> t, name |-> <<>>]
FunctionResponseOf(n) == [kind |-> "functionResponse", text |-> <<>>, name |-> n]
FunctionCallOf(n) == [kind |-> "functionCall", text |-> <<>>, name |-> n]
InlineData == [kind |-> "inlineData", text |-> <<>>, name |-> <<>>]

\* What request.contents and config.systemInstruction may hold: a string, a
\* Content { role, parts }, a bare Part { text } (no role key), or nothing.
StringItem(t) == [kind |-> "string", role |-> Undefined, parts |-> <<>>, text |-> t]
ContentItem(role, parts) == [kind |-> "content", role |-> role, parts |-> parts, text |-> <<>>]
PartItem(t) == [kind |-> "part", role |-> Undefined, parts |-> <<>>, text |-> t]
AbsentItem == [kind |-> "absent", role |-> Undefined, parts |-> <<>>, text |-> <<>>]

\* request.contents: undefined, one item, or an array of items.
NoContents == [shape |-> "absent", items |-> <<>>]
SingleContents(item) == [shape |-> "single", items |-> <<item>>]
ArrayContents(items) == [shape |-> "array", items |-> items]

\* config.tools: undefined or an array; a tool has a functionDeclarations
\* array (of declarations, here their names) or none (e.g. { googleSearch }).
NoTools == [present |-> FALSE, list |-> <<>>]
ToolList(list) == [present |-> TRUE, list |-> list]
DeclaringTool(names) == [declares |-> TRUE, functionDeclarations |-> names]
OtherTool == [declares |-> FALSE, functionDeclarations |-> <<>>]

isContent(obj) == obj.kind = "content"

\* Array.prototype.join
RECURSIVE Join(_, _)
Join(strings, sep) ==
    IF strings = <<>> THEN <<>>
    ELSE IF Len(strings) = 1 THEN strings[1]
    ELSE strings[1] \o sep \o Join(Tail(strings), sep)

extractTextFromParts(parts) ==
    LET PartText(part) ==
            IF part.text # <<>> THEN part.text
            ELSE IF part.kind = "functionResponse"
                 THEN FunctionPrefix \o part.name \o ExecutedSuffix
            ELSE IF part.kind = "functionCall"
                 THEN CallingPrefix \o part.name
            ELSE <<>>
        mapped == [k \in 1..Len(parts) |-> PartText(parts[k])]
    IN Join(SelectSeq(mapped, LAMBDA t : t # <<>>), <<" ">>)

\* `if (request.contents)`, `if (request.config?.systemInstruction)`: an empty
\* string and undefined are falsy, objects and arrays are truthy.
Truthy(obj) == obj.kind # "absent" /\ ~(obj.kind = "string" /\ obj.text = <<>>)
ContentsTruthy(contents) ==
    \/ contents.shape = "array"
    \/ contents.shape = "single" /\ Truthy(contents.items[1])

\* Array.isArray(request.contents) ? request.contents : [request.contents]
ContentArray(contents) == contents.items

\* A backend message; from is the index of the request content it was made
\* of (0 for the system instruction).
Message(role, text, from) == [role |-> role, content |-> text, from |-> from]

\* Faulty variant of KeepsModelMessage: a model message is pushed whatever
\* its text.
KeepsEveryModelMessage(textContent) == TRUE

\* `if (textContent)` of the model branch
KeepsModelMessage(textContent) == textContent # <<>>

\* The for loop over contentArray
ConversationMessages(contents) ==
    LET items == ContentArray(contents)
        Pushed(k) ==
            LET c == items[k] IN
            IF c.kind = "string" THEN <<Message("user", c.text, k)>>
            ELSE IF isContent(c) /\ c.role = "user"
                 THEN <<Message("user", extractTextFromParts(c.parts), k)>>
            ELSE IF isContent(c) /\ c.role = "model"
                 THEN IF KeepsModelMessage(extractTextFromParts(c.parts))
                      THEN <<Message("assistant", extractTextFromParts(c.parts), k)>>
                      ELSE <<>>
            ELSE <<>>
        RECURSIVE From(_)
        From(k) == IF k > Len(items) THEN <<>> ELSE Pushed(k) \o From(k + 1)
    IN IF ContentsTruthy(contents) THEN From(1) ELSE <<>>

\* messages.unshift({ role: 'system', ... })
SystemMessages(systemInstruction) ==
    IF ~Truthy(systemInstruction) THEN <<>>
    ELSE IF systemInstruction.kind = "string"
         THEN <<Message("system", systemInstruction.text, 0)>>
    ELSE IF isContent(systemInstruction)
            /\ extractTextFromParts(systemInstruction.parts) # <<>>
         THEN <<Message("system", extractTextFromParts(systemInstruction.parts), 0)>>
    ELSE <<>>

convertToolsToOpenAIFormat(geminiTools) ==
    LET RECURSIVE From(_)
        From(k) ==
            IF k > Len(geminiTools) THEN <<>>
            ELSE (IF geminiTools[k].declares
                  THEN [j \in 1..Len(geminiTools[k].functionDeclarations) |->
                          [type |-> "function",
                           name |-> geminiTools[k].functionDeclarations[j]]]
                  ELSE <<>>) \o From(k + 1)
    IN From(1)

\* `request.config?.tools && request.config.tools.length > 0`
AddsTools(tools) == tools.present /\ Len(tools.list) > 0

\* An optional field of the backend request.
NotSent == [sent |-> FALSE, value |-> <<>>]
Sent(v) == [sent |-> TRUE, value |-> v]

convertToOpenAIRequest(req) ==
    [model |-> IF req.model = Undefined THEN "grok-beta" ELSE req.model,
     messages |-> SystemMessages(req.systemInstruction)
                    \o ConversationMessages(req.contents),
     tools |-> IF AddsTools(req.tools)
               THEN Sent(convertToolsToOpenAIFormat(req.tools.list))
               ELSE NotSent,
     tool_choice |-> IF AddsTools(req.tools) THEN Sent(<<"auto">>) ELSE NotSent]

\* Faulty variant of EstimatedTokens: the quotient is rounded down.
FlooredTokens(length) == length \div 4

\* Math.ceil(length / 4)
EstimatedTokens(length) == (length + 3) \div 4

\* The text countTokens measures.
CountedText(contents) ==
    LET items == ContentArray(contents)
        mapped == [k \in 1..Len(items) |->
                     IF items[k].kind = "string" THEN items[k].text
                     ELSE IF isContent(items[k])
                          THEN extractTextFromParts(items[k].parts)
                     ELSE <<>>]
    IN Join(mapped, <<" ">>)

countTokens(req) ==
    IF ~ContentsTruthy(req.contents) THEN 0
    ELSE EstimatedTokens(Len(CountedText(req.contents)))

\* How an adapter operation ends: it returns (tokens is the totalTokens of
\* countTokens) or throws an error of class error with a message.
NoOutcome == [op |-> "none", status |-> "none", error |-> "", message |-> "", tokens |-> 0]
Returned(op, tokens) ==
    [op |-> op, status |-> "returned", error |-> "", message |-> "", tokens |-> tokens]
Thrown(op, error, message) ==
    [op |-> op, status |-> "thrown", error |-> error, message |-> message, tokens |-> 0]

\* ReadManyFilesTool is not executing.
PipelineIdle ==
    /\ provider = "grok"
    /\ model = "grok-3-latest"
    /\ layout = "text"
    /\ fileCount = 0
    /\ pc = "idle"
    /\ path = "none"
    /\ cursor = 0
    /\ responseText = <<>>
    /\ selectedFiles = <<>>
    /\ contentParts = <<>>
    /\ skippedFiles = <<>>
    /\ totalTokens = 0
    /\ signal = FALSE
    /\ params = [paths |-> [kind |-> "missing", items |-> <<>>]]
    /\ entries = [regular |-> 0, strays |-> {}]
    /\ result = [kind |-> "none", skipped |-> <<>>]
    /\ effects = {}

\* The request of the runs that exercise the reply side only.
PlainRequest ==
    [model |-> "grok-3-latest", contents |-> ArrayContents(<<StringItem(Hi)>>),
     systemInstruction |-> AbsentItem, tools |-> NoTools]

----------------------------------------------------------------------------
\* The state machine

Init ==
    /\ content \in Replies
    /\ toolCalls \in NativeReplies
    /\ response = NoResponse
    /\ accumulatedContent = <<>>
    /\ pos = 0
    /\ nativeSent = FALSE
    /\ chunks = 0
    /\ deltas = <<>>
    /\ streamDone = FALSE
    /\ now = 0
    /\ request = PlainRequest
    /\ backendRequests = <<>>
    /\ outcome = NoOutcome
    /\ aborted = FALSE
    /\ PipelineIdle
    /\ todos = <<>> /\ currentTodoId = <<>> /\ todoResult = <<>> /\ todoClock = 0
    /\ todoCall = [action |-> "none", todoId |-> <<>>, content |-> <<>>]
    /\ gitParams = [operation |-> "none"] /\ gitPc = "idle"
    /\ gitSignal = [aborted |-> FALSE, listener |-> FALSE, before |-> ""]
    /\ gitProcess = [state |-> "none", args |-> <<>>, cwd |-> <<>>]
    /\ gitPromise = "none" /\ gitResult = "none"
    /\ gitConfirmation = [type |-> "unasked", rootCommand |-> "", command |-> <<>>]
    /\ invocations = NoInvocations

\* generateContent: the request is converted and sent, and the reply is
\* converted in one piece.  The same reply is streamed afterwards (the two
\* conversions share no state).
GenerateContent ==
    /\ ~response.made /\ outcome.op = "none"
    /\ backendRequests' = Append(backendRequests, convertToOpenAIRequest(request))
    /\ response' = convertToGeminiResponse(content, toolCalls, now)
    /\ outcome' = Returned("generateContent", 0)
    /\ UNCHANGED <<content, toolCalls, accumulatedContent, pos, nativeSent,
                   chunks, deltas, streamDone, now, request, aborted, toolVars>>

\* The function-call parts yielded so far (one random draw was made for each
\* extracted one).
YieldedCalls ==
    LET RECURSIVE Collect(_)
        Collect(k) == IF k > Len(deltas) THEN <<>>
                      ELSE CallsOf(deltas[k].parts) \o Collect(k + 1)
    IN Collect(1)

\* One iteration of the for-await loop on a chunk with a choice.
Consume(delta) ==
    LET r == HandleChunk(accumulatedContent, delta, now, Len(YieldedCalls)) IN
    /\ accumulatedContent' = r.acc
    /\ deltas' = IF ShouldYield(r.parts)
                 THEN Append(deltas, [parts |-> r.parts, text |-> r.text])
                 ELSE deltas
    /\ chunks' = chunks + 1
    /\ now' = now + 1

\* A chunk that carries the next k tokens of the reply text.
StreamContentChunk ==
    /\ response.made /\ ~streamDone /\ chunks < MaxChunks /\ ~nativeSent
    /\ \E k \in 1..(Len(content) - pos) :
          /\ Consume([content |-> SubSeq(content, pos + 1, pos + k),
                      reasoning |-> FALSE, tool_calls |-> <<>>])
          /\ pos' = pos + k
    /\ UNCHANGED <<content, toolCalls, response, nativeSent, streamDone>>
    /\ UNCHANGED <<adapterVars, toolVars>>

\* The first chunk may carry reasoning_content and no text: the backend sends
\* its reasoning before the reply text.
StreamReasoningChunk ==
    /\ response.made /\ ~streamDone /\ chunks = 0
    /\ Consume([content |-> <<>>, reasoning |-> TRUE, tool_calls |-> <<>>])
    /\ UNCHANGED <<content, toolCalls, response, pos, nativeSent, streamDone>>
    /\ UNCHANGED <<adapterVars, toolVars>>

\* A chunk that carries the reply's native tool calls and no text; the backend
\* sends them after the reply text, with or without their ids and names.
StreamToolCallChunk ==
    /\ response.made /\ ~streamDone /\ chunks < MaxChunks
    /\ pos = Len(content) /\ ~nativeSent /\ toolCalls # <<>>
    /\ \E bare \in BOOLEAN :
          Consume([content |-> <<>>, reasoning |-> FALSE,
                   tool_calls |-> IF bare
                                  THEN [k \in 1..Len(toolCalls) |-> Bare(toolCalls[k])]
                                  ELSE toolCalls])
    /\ nativeSent' = TRUE
    /\ UNCHANGED <<content, toolCalls, response, pos, streamDone>>
    /\ UNCHANGED <<adapterVars, toolVars>>

\* The last chunk: an empty delta with finish_reason 'stop'; the stream ends.
StreamFinishChunk ==
    /\ response.made /\ ~streamDone
    /\ pos = Len(content) /\ (nativeSent \/ toolCalls = <<>>)
    /\ Consume([content |-> <<>>, reasoning |-> FALSE, tool_calls |-> <<>>])
    /\ streamDone' = TRUE
    /\ UNCHANGED <<content, toolCalls, response, pos, nativeSent>>
    /\ UNCHANGED <<adapterVars, toolVars>>

Next ==
    \/ GenerateContent
    \/ StreamContentChunk
    \/ StreamReasoningChunk
    \/ StreamToolCallChunk
    \/ StreamFinishChunk

Spec == Init /\ [][Next]_vars

----------------------------------------------------------------------------
\* The adapter's operations on a request.  The generator keeps no state
\* between two operations, so a run performs one operation on its request.

MaxMsgs == 2        \* items in the contents array of a request

F == <<"f">>
G == <<"g">>

PartLists ==
    {<<>>, <<TextOnly(<<>>)>>, <<TextOnly(Hi)>>, <<FunctionResponseOf(F)>>,
     <<TextOnly(Hi), FunctionCallOf(F)>>, <<InlineData>>}

Items ==
    {StringItem(<<>>), StringItem(Hi), PartItem(Hi),
     ContentItem("system", <<TextOnly(Hi)>>)}
    \cup {ContentItem(role, parts) : role \in {"user", "model"}, parts \in PartLists}

ItemLists == UNION {[1..n -> Items] : n \in 0..MaxMsgs}

Contents ==
    {NoContents} \cup {SingleContents(item) : item \in Items}
                 \cup {ArrayContents(items) : items \in ItemLists}

SystemInstructions ==
    {AbsentItem, StringItem(Hi), ContentItem("system", <<TextOnly(Hi)>>),
     ContentItem("user", <<TextOnly(<<>>)>>), PartItem(Hi)}

Tools ==
    {NoTools, ToolList(<<>>), ToolList(<<DeclaringTool(<<>>)>>),
     ToolList(<<OtherTool>>), ToolList(<<DeclaringTool(<<F, G>>), OtherTool>>)}

Requests ==
    [model : {"grok-3-latest"}, contents : Contents,
     systemInstruction : SystemInstructions, tools : Tools]

InitAdapter ==
    /\ content = <<>>
    /\ toolCalls = <<>>
    /\ response = NoResponse
    /\ accumulatedContent = <<>>
    /\ pos = 0
    /\ nativeSent = FALSE
    /\ chunks = 0
    /\ deltas = <<>>
    /\ streamDone = FALSE
    /\ now = 0
    /\ request \in Requests
    /\ backendRequests = <<>>
    /\ outcome = NoOutcome
    /\ aborted = FALSE
    /\ PipelineIdle
    /\ todos = <<>> /\ currentTodoId = <<>> /\ todoResult = <<>> /\ todoClock = 0
    /\ todoCall = [action |-> "none", todoId |-> <<>>, content |-> <<>>]
    /\ gitParams = [operation |-> "none"] /\ gitPc = "idle"
    /\ gitSignal = [aborted |-> FALSE, listener |-> FALSE, before |-> ""]
    /\ gitProcess = [state |-> "none", args |-> <<>>, cwd |-> <<>>]
    /\ gitPromise = "none" /\ gitResult = "none"
    /\ gitConfirmation = [type |-> "unasked", rootCommand |-> "", command |-> <<>>]
    /\ invocations = NoInvocations

streamVars == <<content, toolCalls, response, accumulatedContent, pos,
                nativeSent, chunks, deltas, streamDone, now>>

\* generateContent when client.chat.completions.create rejects.
GenerateContentFails ==
    /\ outcome.op = "none"
    /\ backendRequests' = Append(backendRequests, convertToOpenAIRequest(request))
    /\ outcome' = Thrown("generateContent", "APIError", "backend")
    /\ UNCHANGED <<streamVars, request, aborted, toolVars>>

\* generateContentStream: the converted request is sent with stream: true;
\* the call rejects, or the generator over the backend stream is returned.
GenerateContentStream ==
    /\ outcome.op = "none"
    /\ backendRequests' = Append(backendRequests, convertToOpenAIRequest(request))
    /\ \E ok \in BOOLEAN :
          outcome' = IF ok THEN Returned("generateContentStream", 0)
                     ELSE Thrown("generateContentStream", "APIError", "backend")
    /\ UNCHANGED <<streamVars, request, aborted, toolVars>>

CountTokens ==
    /\ outcome.op = "none"
    /\ outcome' = Returned("countTokens", countTokens(request))
    /\ UNCHANGED <<streamVars, request, backendRequests, aborted, toolVars>>

EmbedContent ==
    /\ outcome.op = "none"
    /\ outcome' = Thrown("embedContent", "Error", "Embeddings not supported by Grok")
    /\ UNCHANGED <<streamVars, request, backendRequests, aborted, toolVars>>

NextAdapter ==
    \/ GenerateContent
    \/ GenerateContentFails
    \/ GenerateContentStream
    \/ CountTokens
    \/ EmbedContent

SpecAdapter == InitAdapter /\ [][NextAdapter]_vars

----------------------------------------------------------------------------
\* Properties

\* The text of all text parts of a sequence of parts, concatenated.
RECURSIVE TextOf(_)
TextOf(parts) ==
    IF parts = <<>> THEN <<>>
    ELSE (IF IsText(Head(parts)) THEN Str(Head(parts).text) ELSE <<>>)
             \o TextOf(Tail(parts))

\* The text of all text parts of all deltas yielded so far, concatenated.
StreamedText ==
    LET RECURSIVE Collect(_)
        Collect(k) == IF k > Len(deltas) THEN <<>>
                      ELSE TextOf(deltas[k].parts) \o Collect(k + 1)
    IN Collect(1)

\* The calls among cs that were extracted from the text (a native call has
\* no place in the text).
Extracted(cs) == SelectSeq(cs, LAMBDA c : c.src # 0)

NoMarker(c) == ~Includes(c, "FO") /\ ~Includes(c, "TO") /\ ~IncludesCalling(c)

\* The payload of block match m of s, trimmed.
Payload(s, m) == Str(Trim(SubSeq(s, m[1] + 1, m[2] - 1)))

\* C1: once the stream of a reply is drained, the concatenated text parts of
\* its deltas equal the text of the non-streamed response for the same reply.
C1_StreamedTextEqualsResponseText ==
    (streamDone /\ response.made) => StreamedText = Str(response.text)

\* C2: no marker occurrence yields two FunctionCall parts over the stream, and
\* the opening marker of an emitted call is no longer in the accumulation buffer.
C2_OccurrenceEmittedOnce ==
    LET cs == Extracted(YieldedCalls) IN
    /\ \A i, j \in 1..Len(cs) : i # j => cs[i].src # cs[j].src
    /\ \A i \in 1..Len(cs) : \A k \in 1..Len(accumulatedContent) :
           accumulatedContent[k].at # cs[i].src

\* C2 witness: a call was emitted from a marker, text is still buffered and
\* the stream went on to consume a later chunk that yielded a delta.
C2_Witness ==
    /\ Len(deltas) >= 2
    /\ Extracted(CallsOf(deltas[1].parts)) # <<>>
    /\ accumulatedContent # <<>>

\* C3: once the stream is drained, it has yielded as many FunctionCall parts
\* as the non-streamed response holds for the same reply.
C3_SameNumberOfCalls ==
    (streamDone /\ response.made) =>
        Len(YieldedCalls) = Len(CallsOf(response.parts))

\* C4: a reply without any marker and without native tool calls is returned
\* with its text unchanged and without FunctionCall parts.
C4_PlainTextUnchanged ==
    (response.made /\ NoMarker(content) /\ toolCalls = <<>>) =>
        /\ response.text = content
        /\ CallsOf(response.parts) = <<>>

\* C4 witness: a converted plain reply that starts with a blank and goes on.
C4_Witness ==
    /\ response.made /\ NoMarker(content) /\ toolCalls = <<>>
    /\ Len(content) >= 2 /\ content[1].ch = " " /\ content[2].ch = "a"

\* C5: when all n blocks of a reply are well-formed, the response holds
\* exactly n FunctionCall parts from blocks, the i-th with the i-th block's
\* action and action_input, and its text holds nothing of any block.
C5_WellFormedBlocksExtracted ==
    LET ms == FunctionCallMatches(content)
        cs == SelectSeq(CallsOf(response.parts), LAMBDA c : c.id.scheme = "grok")
    IN (response.made /\ \A k \in 1..Len(ms) : Payload(content, ms[k]) = <<"J">>) =>
          /\ Len(cs) = Len(ms)
          /\ \A k \in 1..Len(ms) :
                /\ cs[k].src = ms[k][1]
                /\ cs[k].name = "foo"
                /\ cs[k].args = [type |-> "object", fields |-> {<<"x", "1">>}]
          /\ \A i \in 1..Len(response.text) :
                response.text[i].at \notin FunctionCallSpans(content)

\* C6: a block whose payload is not valid JSON yields no FunctionCall, its
\* text is removed from the visible text, and every well-formed block of the
\* reply still yields its FunctionCall (non-streamed and streamed).
C6_MalformedBlockSkipped ==
    LET ms == FunctionCallMatches(content)
        bad == {k \in 1..Len(ms) : Payload(content, ms[k]) \notin {<<"J">>, <<"N">>}}
        good == (1..Len(ms)) \ bad
        rcs == CallsOf(response.parts)
    IN /\ response.made =>
            /\ \A k \in bad :
                  /\ \A i \in 1..Len(rcs) : rcs[i].src # ms[k][1]
                  /\ \A i \in 1..Len(response.text) :
                        response.text[i].at \notin ms[k][1]..ms[k][2]
            /\ \A k \in good : \E i \in 1..Len(rcs) : rcs[i].src = ms[k][1]
       /\ streamDone =>
            /\ \A k \in bad :
                  /\ \A i \in 1..Len(YieldedCalls) : YieldedCalls[i].src # ms[k][1]
                  /\ \A d \in 1..Len(deltas) : \A i \in 1..Len(deltas[d].text) :
                        deltas[d].text[i].at \notin ms[k][1]..ms[k][2]
            /\ \A k \in good :
                  \E i \in 1..Len(YieldedCalls) : YieldedCalls[i].src = ms[k][1]

\* C7: in the parts of a response the cleaned text part comes first, every
\* extracted FunctionCall part follows it, and the extracted FunctionCall parts
\* are in the order of their markers in the reply text.
C7_TextFirstCallsInSourceOrder ==
    LET ps == response.parts
        cs == Extracted(CallsOf(ps))
    IN response.made =>
          /\ (\E i \in 1..Len(ps) : IsText(ps[i])) => IsText(ps[1])
          /\ \A i, j \in 1..Len(cs) : i < j => cs[i].src < cs[j].src

WellFormedCall(c) == c.name \notin {"", Undefined} /\ c.args.type = "object"

\* C8: every FunctionCall part of a response or of a delta has a non-empty
\* name and args that are a mapping.
C8_CallsHaveNameAndArgs ==
    /\ \A i \in 1..Len(response.parts) :
          IsCall(response.parts[i]) => WellFormedCall(response.parts[i])
    /\ \A i \in 1..Len(YieldedCalls) : WellFormedCall(YieldedCalls[i])

Distinct(ids) == \A i, j \in 1..Len(ids) : i # j => ids[i] # ids[j]

IdsOf(cs) == [k \in 1..Len(cs) |-> cs[k].id]

\* C9: the identifiers of the FunctionCall parts of one response, and of one
\* stream, are pairwise distinct.
C9_IdentifiersDistinct ==
    /\ Distinct(IdsOf(CallsOf(response.parts)))
    /\ Distinct(IdsOf(YieldedCalls))

\* C10: no yielded delta has an empty part list.
C10_NoEmptyDelta ==
    \A k \in 1..Len(deltas) : Len(deltas[k].parts) > 0

\* C10 witness: deltas were yielded and some consumed chunk yielded none.
C10_Witness ==
    /\ Len(deltas) >= 1
    /\ chunks > Len(deltas)

----------------------------------------------------------------------------
\* countTokens on requests whose texts the caller lengthens, one character
\* at a time, before it counts.

MaxText == 3        \* length up to which a text of the request is lengthened

\* A string of 400 characters.
FourHundred == [k \in 1..400 |-> "x"]

\* The ways to lengthen one text of an item by one character.
Lengthened(item) ==
    IF isContent(item)
    THEN {[item EXCEPT !.parts[j].text = @ \o <<"x">>] :
             j \in {i \in 1..Len(item.parts) :
                       item.parts[i].kind = "text" /\ Len(item.parts[i].text) < MaxText}}
    ELSE IF item.kind \in {"string", "part"} /\ Len(item.text) < MaxText
         THEN {[item EXCEPT !.text = @ \o <<"x">>]}
         ELSE {}

InitCount ==
    /\ content = <<>>
    /\ toolCalls = <<>>
    /\ response = NoResponse
    /\ accumulatedContent = <<>>
    /\ pos = 0
    /\ nativeSent = FALSE
    /\ chunks = 0
    /\ deltas = <<>>
    /\ streamDone = FALSE
    /\ now = 0
    /\ request \in [model : {"grok-3-latest"},
                    contents : Contents \cup {SingleContents(StringItem(FourHundred))},
                    systemInstruction : {AbsentItem}, tools : {NoTools}]
    /\ backendRequests = <<>>
    /\ outcome = NoOutcome
    /\ aborted = FALSE
    /\ PipelineIdle
    /\ todos = <<>> /\ currentTodoId = <<>> /\ todoResult = <<>> /\ todoClock = 0
    /\ todoCall = [action |-> "none", todoId |-> <<>>, content |-> <<>>]
    /\ gitParams = [operation |-> "none"] /\ gitPc = "idle"
    /\ gitSignal = [aborted |-> FALSE, listener |-> FALSE, before |-> ""]
    /\ gitProcess = [state |-> "none", args |-> <<>>, cwd |-> <<>>]
    /\ gitPromise = "none" /\ gitResult = "none"
    /\ gitConfirmation = [type |-> "unasked", rootCommand |-> "", command |-> <<>>]
    /\ invocations = NoInvocations

LengthenText ==
    /\ outcome.op = "none"
    /\ \E k \in 1..Len(request.contents.items) :
          \E item \in Lengthened(request.contents.items[k]) :
              request' = [request EXCEPT !.contents.items[k] = item]
    /\ UNCHANGED <<streamVars, backendRequests, outcome, aborted, toolVars>>

NextCount ==
    \/ LengthenText
    \/ CountTokens

SpecCount == InitCount /\ [][NextCount]_vars

----------------------------------------------------------------------------
\* A stream whose caller raises the request's abort signal while it consumes
\* the stream.  generateContentStream hands no signal to the client and the
\* for-await loop reads none, so the stream's steps are those of Next.

Abort ==
    /\ response.made /\ ~streamDone /\ ~aborted
    /\ aborted' = TRUE
    /\ UNCHANGED <<streamVars, request, backendRequests, outcome, toolVars>>

NextCancel ==
    \/ GenerateContent
    \/ StreamContentChunk
    \/ StreamReasoningChunk
    \/ StreamToolCallChunk
    \/ StreamFinishChunk
    \/ Abort

SpecCancel == Init /\ [][NextCancel]_vars

----------------------------------------------------------------------------
\* ReadManyFilesTool (the file pipeline).  The discovered files, sorted, are
\* the numbers 1..fileCount: file i is sortedFiles[i - 1].  The model's reply
\* is a string, character by character.

MaxFiles == 22      \* discovered files of one run

\* tokenLimits.ts
tokenLimit(m) ==
    CASE m = "gemini-1.5-pro" -> 2097152
      [] m \in {"gemini-1.5-flash", "gemini-2.5-pro", "gemini-2.5-flash",
                "gemini-2.0-flash"} -> 1048576
      [] m = "gemini-2.0-flash-preview-image-generation" -> 32000
      [] m \in {"grok-3-latest", "grok-3-mini-latest", "grok-beta"} -> 131072
      [] m \in {"grok-4-latest", "grok-4-mini-latest"} -> 131072
      [] OTHER -> 1048576

\* The Grok model names of config/models.ts.
GrokModels ==
    {"grok-3-latest", "grok-4-latest", "grok-4-mini-latest", "grok-3-fast",
     "grok-3-mini-latest", "grok-3-mini-fast"}

Models == GrokModels \cup {"grok-beta", "gemini-2.5-pro",
                           "gemini-2.0-flash-preview-image-generation"}

\* Faulty variant of shouldUseSmartSelection: the model's limit is not looked at.
SmartForEveryGrokModel(p, m, count) == p = "grok" /\ count > 20

shouldUseSmartSelection(p, m, count) ==
    p = "grok" /\ count > 20 /\ tokenLimit(m) <= 131072

\* const maxTokenBudget = 100000
maxTokenBudget == 100000

\* estimateTokens: Math.ceil(content.length / 4)
estimateTokens(length) == (length + 3) \div 4

\* What file i of a layout is: its detected type, whether the patterns name
\* it explicitly, whether reading it fails, and the length of its content.
FileOf(l, i) ==
    IF l = "large"
    THEN [type |-> "text", requested |-> FALSE, error |-> FALSE, length |-> 240000]
    ELSE IF l = "uneven"
    THEN [type |-> "text", requested |-> FALSE, error |-> FALSE,
          length |-> IF i % 3 = 1 THEN 199998 ELSE IF i % 3 = 2 THEN 7 ELSE 400004]
    ELSE IF l = "mixed" /\ i % 4 = 0
    THEN [type |-> "image", requested |-> FALSE, error |-> FALSE, length |-> 0]
    ELSE IF l = "mixed" /\ i % 4 = 2
    THEN [type |-> "text", requested |-> FALSE, error |-> TRUE, length |-> 40]
    ELSE IF l = "mixed" /\ i % 4 = 3
    THEN [type |-> "pdf", requested |-> TRUE, error |-> FALSE, length |-> 0]
    ELSE [type |-> "text", requested |-> FALSE, error |-> FALSE, length |-> 40]

Layouts == {"text", "mixed", "large", "uneven"}

Digits == <<"0", "1", "2", "3", "4", "5", "6", "7", "8", "9">>

IsDigit(c) == \E d \in 1..10 : Digits[d] = c
DigitValue(c) == (CHOOSE d \in 1..10 : Digits[d] = c) - 1

\* response.match(/\d+/g): the maximal runs of digits, from left to right
RECURSIVE DigitRuns(_)
DigitRuns(text) ==
    IF text = <<>> THEN <<>>
    ELSE IF ~IsDigit(text[1]) THEN DigitRuns(Tail(text))
    ELSE LET n == CHOOSE k \in 1..Len(text) :
                     /\ \A j \in 1..k : IsDigit(text[j])
                     /\ k = Len(text) \/ ~IsDigit(text[k + 1])
         IN <<SubSeq(text, 1, n)>> \o DigitRuns(SubSeq(text, n + 1, Len(text)))

\* parseInt(match, 10) on a run of digits
RECURSIVE parseInt(_)
parseInt(digits) ==
    IF digits = <<>> THEN 0
    ELSE 10 * parseInt(SubSeq(digits, 1, Len(digits) - 1))
         + DigitValue(digits[Len(digits)])

parseSelectionResponse(text) ==
    LET matches == DigitRuns(text)
        numbers == [k \in 1..Len(matches) |-> parseInt(matches[k])]
    IN SelectSeq(numbers, LAMBDA num : num > 0 /\ num <= 100)

\* Array.prototype.slice(0, n)
SliceTo(seq, n) == SubSeq(seq, 1, Min({n, Len(seq)}))

\* selectedNumbers.map(num => sortedFiles[num - 1]).filter(Boolean).slice(0, 20)
SelectedFromReply(text, count) ==
    SliceTo(SelectSeq(parseSelectionResponse(text), LAMBDA num : num <= count), 20)

\* Faulty variant of FirstTen: the first twenty files.
FirstTwenty(count) == [k \in 1..Min({20, count}) |-> k]

\* sortedFiles.slice(0, 10)
FirstTen(count) == [k \in 1..Min({10, count}) |-> k]

\* The decimal digits of a number below 100, and numbers joined by commas.
NumberText(n) == IF n < 10 THEN <<Digits[n + 1]>>
                 ELSE <<Digits[(n \div 10) + 1], Digits[(n % 10) + 1]>>
RECURSIVE CommaList(_, _)
CommaList(from, to) ==
    IF from > to THEN <<>>
    ELSE IF from = to THEN NumberText(from)
    ELSE NumberText(from) \o <<",">> \o CommaList(from + 1, to)

\* Replies of the model to the selection prompt.
SelectionReplies ==
    {<<>>,
     <<"n", "o", "n", "e">>,
     <<"I", "'", "d", " ", "p", "i", "c", "k", " ", "2", ",", " ", "5", " ",
       "a", "n", "d", " ", "9">>,
     <<"9", ",", "2">>,
     <<"2", ",", "2">>,
     <<"0", ",", "1", "0", "1">>,
     <<"0", "0", "7", " ", "4", "0">>,
     <<"4", "0">>,
     CommaList(1, MaxFiles)}

\* What processSingleFileContent resolves with for a file: an error result
\* (whose llmContent is the error's message) when the read fails, a string
\* for a text file, a Part for an image or a pdf.
ReadResult(f) ==
    IF f.error THEN [error |-> TRUE, isString |-> TRUE, length |-> 20]
    ELSE [error |-> FALSE, isString |-> f.type = "text", length |-> f.length]

ContentPart(file, length, truncated) ==
    [file |-> file, length |-> length, truncated |-> truncated]
SkipRecord(file, reason) == [file |-> file, reason |-> reason]

\* The parameters of execute.  An item of paths is a string or something
\* else; paths, include and exclude are arrays or something else or absent.
Pattern == [isString |-> TRUE, text |-> <<"*">>]
EmptyString == [isString |-> TRUE, text |-> <<>>]
BlankString == [isString |-> TRUE, text |-> <<" ", " ">>]
NotAString == [isString |-> FALSE, text |-> <<>>]
PathsOf(kind, items) == [kind |-> kind, items |-> items]
Params(paths, include, exclude) ==
    [paths |-> paths, include |-> include, exclude |-> exclude]
ValidParams == Params(PathsOf("array", <<Pattern>>), "absent", "absent")

\* p.trim()
RECURSIVE trim(_)
trim(text) ==
    IF text = <<>> THEN <<>>
    ELSE IF Head(text) = " " THEN trim(Tail(text))
    ELSE IF text[Len(text)] = " " THEN trim(SubSeq(text, 1, Len(text) - 1))
    ELSE text

\* SchemaValidator.validate against the parameter schema of the tool: paths,
\* include and exclude are arrays of strings.
SchemaValid(p) ==
    /\ p.paths.kind = "array"
    /\ \A k \in 1..Len(p.paths.items) : p.paths.items[k].isString
    /\ p.include \in {"absent", "strings"}
    /\ p.exclude \in {"absent", "strings"}

\* Faulty variant of validateParams: only the shape of paths is checked.
validateShapeOnly(p) ==
    IF p.paths.kind # "array" \/ Len(p.paths.items) = 0 THEN "required"
    ELSE "null"

\* validateParams: the message it returns, named by its kind, or null.
validateParams(p) ==
    IF p.paths.kind # "array" \/ Len(p.paths.items) = 0 THEN "required"
    ELSE IF ~SchemaValid(p) THEN "schema"
    ELSE IF \E k \in 1..Len(p.paths.items) :
               \/ ~p.paths.items[k].isString
               \/ trim(p.paths.items[k].text) = <<>>
    THEN "item"
    ELSE IF p.include \notin {"absent", "strings"} THEN "include"
    ELSE IF p.exclude \notin {"absent", "strings"} THEN "exclude"
    ELSE "null"

\* The target directory, and the paths glob can return besides the regular
\* files of the target directory: a path in another directory, a path in a
\* sibling directory whose name starts with the target directory's name, and
\* a path of the target directory that git ignores.
Root == <<"/", "p">>
StrayPath(s) ==
    IF s = "outside" THEN <<"/", "x", "/", "a">>
    ELSE IF s = "sibling" THEN <<"/", "p", "q", "/", "a">>
    ELSE <<"/", "p", "/", "n">>
Strays == {"outside", "sibling", "ignored"}
Outside == 0 - 1
Ignored == 0 - 2

\* absoluteFilePath.startsWith(toolBaseDir)
StartsWith(text, prefix) ==
    Len(text) >= Len(prefix) /\ SubSeq(text, 1, Len(prefix)) = prefix

\* The strays that pass the check of the target directory and the git
\* filter, and are added to filesToConsider.
Considered(strays) ==
    {s \in strays : StartsWith(StrayPath(s), Root) /\ s # "ignored"}

\* The relative and the absolute path of the file at a position of
\* sortedFiles: the regular files sort before the sibling directory's file.
RelativePath(e, file) ==
    IF file > e.regular THEN <<".", ".">> \o StrayPath("sibling")
    ELSE IF file < 10 THEN <<"f", "0">> \o NumberText(file)
    ELSE <<"f">> \o NumberText(file)
AbsolutePath(e, file) ==
    IF file = Outside THEN StrayPath("outside")
    ELSE IF file = Ignored THEN StrayPath("ignored")
    ELSE IF file > e.regular THEN StrayPath("sibling")
    ELSE Root \o <<"/">> \o RelativePath(e, file)

\* A call execute makes to a collaborator.
Call(op, file) == [op |-> op, file |-> file]

\* Faulty variant of Caught: the exception leaves execute.
Uncaught(returns) == "thrown"

\* A catch block that returns a result: execute goes on to its return.
Caught(returns) == returns

\* Faulty variant of AfterTruncation: the loop goes on to the next file.
NextAfterTruncation(position, count) == position + 1

\* break: the position of the loop after the truncated file.
AfterTruncation(position, count) == count + 1

\* The adapter is not in use.
AdapterIdle ==
    /\ content = <<>>
    /\ toolCalls = <<>>
    /\ response = NoResponse
    /\ accumulatedContent = <<>>
    /\ pos = 0
    /\ nativeSent = FALSE
    /\ chunks = 0
    /\ deltas = <<>>
    /\ streamDone = FALSE
    /\ now = 0
    /\ request = PlainRequest
    /\ backendRequests = <<>>
    /\ outcome = NoOutcome
    /\ aborted = FALSE

\* execute has been called and nothing of it has run.
Called ==
    /\ AdapterIdle
    /\ fileCount = 0
    /\ pc = "called"
    /\ path = "none"
    /\ cursor = 0
    /\ responseText = <<>>
    /\ selectedFiles = <<>>
    /\ contentParts = <<>>
    /\ skippedFiles = <<>>
    /\ totalTokens = 0
    /\ signal = FALSE
    /\ result = [kind |-> "none", skipped |-> <<>>]
    /\ effects = {}
    /\ todos = <<>> /\ currentTodoId = <<>> /\ todoResult = <<>> /\ todoClock = 0
    /\ todoCall = [action |-> "none", todoId |-> <<>>, content |-> <<>>]
    /\ gitParams = [operation |-> "none"] /\ gitPc = "idle"
    /\ gitSignal = [aborted |-> FALSE, listener |-> FALSE, before |-> ""]
    /\ gitProcess = [state |-> "none", args |-> <<>>, cwd |-> <<>>]
    /\ gitPromise = "none" /\ gitResult = "none"
    /\ gitConfirmation = [type |-> "unasked", rootCommand |-> "", command |-> <<>>]
    /\ invocations = NoInvocations

\* execute is called with valid parameters on a target directory of regular
\* files.
InitPipeline ==
    /\ Called
    /\ provider \in {"grok", "gemini"}
    /\ model \in Models
    /\ layout \in Layouts
    /\ params = ValidParams
    /\ entries \in [regular : 0..MaxFiles, strays : {{}}]

adapterSide == <<streamVars, adapterVars>>
callSide == <<provider, model, layout, params, entries, adapterSide, todoVars, gitVars,
              invocations>>

\* execute up to the sort of the files to consider: the validation, the
\* search and the loop over its entries.
Discover ==
    /\ pc = "called"
    /\ IF validateParams(params) # "null"
       THEN /\ pc' = "done"
            /\ result' = [kind |-> "validation error", skipped |-> <<>>]
            /\ UNCHANGED <<fileCount, skippedFiles, effects>>
       ELSE /\ effects' = effects \cup {Call("glob", 0)}
            /\ \/ /\ skippedFiles' =
                        (IF \E s \in entries.strays : ~StartsWith(StrayPath(s), Root)
                         THEN <<SkipRecord(Outside, "security")>> ELSE <<>>)
                        \o (IF "ignored" \in entries.strays
                            THEN <<SkipRecord(0, "ignored")>> ELSE <<>>)
                  /\ fileCount' = entries.regular + Cardinality(Considered(entries.strays))
                  /\ pc' = "discovered"
                  /\ UNCHANGED result
               \/ /\ pc' = Caught("done")
                  /\ result' = [kind |-> "search error", skipped |-> <<>>]
                  /\ UNCHANGED <<fileCount, skippedFiles>>
    /\ UNCHANGED <<path, cursor, responseText, selectedFiles, contentParts,
                   totalTokens, signal, callSide>>

\* execute: the choice between the standard read and smart selection.
Decide ==
    /\ pc = "discovered"
    /\ IF shouldUseSmartSelection(provider, model, fileCount)
       THEN pc' = "choose" /\ path' = "smart"
       ELSE pc' = "standard" /\ path' = "standard"
    /\ cursor' = 1
    /\ UNCHANGED <<fileCount, responseText, selectedFiles, contentParts,
                   skippedFiles, totalTokens, signal, result, effects, callSide>>

\* One iteration of the loop of the standard read.
StandardReadFile ==
    /\ pc = "standard" /\ cursor <= fileCount
    /\ LET f == FileOf(layout, cursor) IN
       IF f.type \in {"image", "pdf"} /\ ~f.requested
       THEN /\ skippedFiles' = Append(skippedFiles, SkipRecord(cursor, "asset"))
            /\ UNCHANGED <<contentParts, effects>>
       ELSE /\ effects' = effects \cup {Call("read", cursor)}
            /\ IF ReadResult(f).error
               THEN /\ skippedFiles' = Append(skippedFiles, SkipRecord(cursor, "read error"))
                    /\ UNCHANGED contentParts
               ELSE /\ contentParts' = Append(contentParts,
                                              ContentPart(cursor, ReadResult(f).length, FALSE))
                    /\ UNCHANGED skippedFiles
    /\ cursor' = cursor + 1
    /\ UNCHANGED <<fileCount, pc, path, responseText, selectedFiles,
                   totalTokens, signal, result, callSide>>

\* The candidates createFilePreview reads the first lines of: the text files
\* among the first hundred.
PreviewReads(l, count) ==
    {file \in 1..Min({count, 100}) : FileOf(l, file).type = "text"}

\* executeWithSmartSelection up to its reading loop: the previews, the
\* selection prompt and its reply, the parse; a rejected generateContent
\* leads to executeRegularSelection on the first ten files.
Choose ==
    /\ pc = "choose"
    /\ effects' = effects \cup {Call("preview", file) : file \in PreviewReads(layout, fileCount)}
                          \cup {Call("generateContent", 0)}
    /\ \/ \E reply \in SelectionReplies :
             /\ responseText' = reply
             /\ selectedFiles' = IF SelectedFromReply(reply, fileCount) = <<>>
                                 THEN FirstTen(fileCount)
                                 ELSE SelectedFromReply(reply, fileCount)
             /\ pc' = "budgeted"
             /\ UNCHANGED path
       \/ /\ selectedFiles' = FirstTen(fileCount)
          /\ pc' = Caught("regular")
          /\ path' = "regular"
          /\ UNCHANGED responseText
    /\ cursor' = 1
    /\ UNCHANGED <<fileCount, contentParts, skippedFiles, totalTokens, signal,
                   result, callSide>>

\* One iteration of the loop of the budgeted read.
BudgetedReadFile ==
    /\ pc = "budgeted" /\ cursor <= Len(selectedFiles) /\ ~signal
    /\ effects' = effects \cup {Call("read", selectedFiles[cursor])}
    /\ LET file == selectedFiles[cursor]
           r == ReadResult(FileOf(layout, file))
           contentTokens == estimateTokens(r.length)
           truncatedLength == Max({0, (maxTokenBudget - totalTokens) * 4})
       IN
       IF r.isString /\ totalTokens + contentTokens > maxTokenBudget
       THEN /\ contentParts' = Append(contentParts,
                                      ContentPart(file, Min({r.length, truncatedLength}), TRUE))
            /\ cursor' = AfterTruncation(cursor, Len(selectedFiles))
            /\ UNCHANGED totalTokens
       ELSE IF r.isString
       THEN /\ contentParts' = Append(contentParts, ContentPart(file, r.length, FALSE))
            /\ totalTokens' = totalTokens + contentTokens
            /\ cursor' = cursor + 1
       ELSE /\ cursor' = cursor + 1
            /\ UNCHANGED <<contentParts, totalTokens>>
    /\ UNCHANGED <<fileCount, pc, path, responseText, selectedFiles,
                   skippedFiles, signal, result, callSide>>

\* One iteration of the loop of executeRegularSelection.
RegularReadFile ==
    /\ pc = "regular" /\ cursor <= Len(selectedFiles) /\ ~signal
    /\ effects' = effects \cup {Call("read", selectedFiles[cursor])}
    /\ LET file == selectedFiles[cursor]
           r == ReadResult(FileOf(layout, file))
       IN contentParts' = IF r.isString
                          THEN Append(contentParts, ContentPart(file, r.length, FALSE))
                          ELSE contentParts
    /\ cursor' = cursor + 1
    /\ UNCHANGED <<fileCount, pc, path, responseText, selectedFiles,
                   skippedFiles, totalTokens, signal, result, callSide>>

\* The loop has ended and execute returns its result: the standard read
\* shows the first five skip records, the other two reads show none.
ReturnResult ==
    /\ \/ pc = "standard" /\ cursor > fileCount
       \/ pc \in {"budgeted", "regular"} /\ (cursor > Len(selectedFiles) \/ signal)
    /\ result' = IF pc = "standard"
                 THEN [kind |-> "content", skipped |-> SliceTo(skippedFiles, 5)]
                 ELSE IF pc = "budgeted"
                 THEN [kind |-> "smart", skipped |-> <<>>]
                 ELSE [kind |-> "fallback", skipped |-> <<>>]
    /\ pc' = "done"
    /\ UNCHANGED <<fileCount, path, cursor, responseText, selectedFiles,
                   contentParts, skippedFiles, totalTokens, signal, effects,
                   callSide>>

\* The caller aborts the signal it gave to execute.
AbortSignal ==
    /\ pc \notin {"idle", "done", "thrown"} /\ ~signal
    /\ signal' = TRUE
    /\ UNCHANGED <<fileCount, pc, path, cursor, responseText, selectedFiles,
                   contentParts, skippedFiles, totalTokens, result, effects,
                   callSide>>

NextPipeline ==
    \/ Discover
    \/ Decide
    \/ StandardReadFile
    \/ Choose
    \/ BudgetedReadFile
    \/ RegularReadFile
    \/ ReturnResult
    \/ AbortSignal

SpecPipeline == InitPipeline /\ [][NextPipeline]_vars

\* execute is called with any parameters on a target directory that glob
\* leaves or whose files git ignores.
ParamsInputs ==
    {Params(PathsOf("missing", <<>>), "absent", "absent"),
     Params(PathsOf("notArray", <<>>), "absent", "absent"),
     Params(PathsOf("array", <<>>), "absent", "absent"),
     Params(PathsOf("array", <<Pattern, EmptyString>>), "absent", "absent"),
     Params(PathsOf("array", <<BlankString>>), "strings", "absent"),
     Params(PathsOf("array", <<Pattern, NotAString>>), "absent", "absent"),
     Params(PathsOf("array", <<Pattern>>), "notArray", "absent"),
     Params(PathsOf("array", <<Pattern>>), "absent", "notArray"),
     Params(PathsOf("array", <<Pattern, Pattern>>), "strings", "strings"),
     ValidParams}
DiscoverCounts == {0, 2, MaxFiles - 2, MaxFiles - 1}
InitDiscover ==
    /\ Called
    /\ provider = "grok"
    /\ model = "grok-3-latest"
    /\ layout \in {"text", "mixed", "uneven"}
    /\ params \in ParamsInputs
    /\ entries \in [regular : DiscoverCounts, strays : SUBSET Strays]

SpecDiscover == InitDiscover /\ [][NextPipeline]_vars

----------------------------------------------------------------------------
\* TodoManagerTool (specification SpecTodo)

MaxTodoOps == 3

\* An absent or empty string parameter, which JavaScript takes as false.
Absent == <<>>
T1 == <<"t", "1">>
T2 == <<"t", "2">>
Statuses == {"pending", "in_progress", "completed", "cancelled"}
KnownActions == {"create", "update", "delete", "list", "clear"}

\* The params of one call of execute.
\* list, clear and an unknown action are called with the action alone.
TodoParams ==
    [action : {"create", "update"},
     todoId : {Absent, T1, T2},
     content : {Absent, <<"x">>},
     status : {"absent"} \cup Statuses,
     priority : {"absent", "high"}]
    \cup [action : {"delete"}, todoId : {Absent, T1, T2}, content : {Absent},
          status : {"absent"}, priority : {"absent"}]
    \cup [action : {"list", "clear", "archive"}, todoId : {Absent},
          content : {Absent}, status : {"absent"}, priority : {"absent"}]

\* generateId(): an id no stored todo has, made from the time of the call.
generateId(time) == <<"g">> \o NumberText(time)

\* Faulty variant of Position: an id that is not stored finds the last todo.
PositionOrLast(map, id) ==
    IF \E k \in 1..Len(map) : map[k].id = id
    THEN CHOOSE k \in 1..Len(map) : map[k].id = id
    ELSE Len(map)

\* this.todos.get(id): the position of the todo in the map, 0 if none.
Position(map, id) ==
    IF \E k \in 1..Len(map) : map[k].id = id
    THEN CHOOSE k \in 1..Len(map) : map[k].id = id
    ELSE 0

\* this.todos.set(id, todo): a stored key keeps its place in the map.
MapSet(map, todo) ==
    IF Position(map, todo.id) = 0 THEN Append(map, todo)
    ELSE [map EXCEPT ![Position(map, todo.id)] = todo]

\* this.todos.delete(id)
MapDelete(map, id) == SelectSeq(map, LAMBDA todo : todo.id # id)

\* Faulty variant of clearOtherInProgress: nothing is reset.
keepOtherInProgress(map, exceptId, time) == map

\* clearOtherInProgress
clearOtherInProgress(map, exceptId, time) ==
    [k \in 1..Len(map) |->
        IF map[k].id # exceptId /\ map[k].status = "in_progress"
        THEN [map[k] EXCEPT !.status = "pending", !.updatedAt = time]
        ELSE map[k]]

\* SchemaValidator.validate against the parameter schema of the tool, whose
\* one required property is action.
TodoSchemaValid(p) == p.action # ""

\* validateToolParams: the message it returns, in pieces, or null.
Null == <<>>
validateToolParams(p) ==
    IF ~TodoSchemaValid(p) THEN <<"Invalid parameters for TODO manager">>
    ELSE IF p.action = "create"
    THEN (IF p.content = Absent THEN <<"Create action requires content">> ELSE Null)
    ELSE IF p.action \in {"update", "delete"}
    THEN (IF p.todoId = Absent THEN <<p.action, " action requires todoId">> ELSE Null)
    ELSE IF p.action \in {"list", "clear"} THEN Null
    ELSE <<"Unknown action: ", p.action>>

\* The tool after its construction.
TodoIdle ==
    /\ todos = <<>>
    /\ currentTodoId = Null
    /\ todoResult = <<>>
    /\ todoClock = 0
    /\ todoCall = [action |-> "none", todoId |-> <<>>, content |-> <<>>]

InitTodo ==
    /\ AdapterIdle
    /\ PipelineIdle
    /\ TodoIdle
    /\ gitParams = [operation |-> "none"] /\ gitPc = "idle"
    /\ gitSignal = [aborted |-> FALSE, listener |-> FALSE, before |-> ""]
    /\ gitProcess = [state |-> "none", args |-> <<>>, cwd |-> <<>>]
    /\ gitPromise = "none" /\ gitResult = "none"
    /\ gitConfirmation = [type |-> "unasked", rootCommand |-> "", command |-> <<>>]
    /\ invocations = NoInvocations

otherSide == <<adapterSide, pipelineVars, gitVars, invocations>>

\* execute with params that validateToolParams rejects.
TodoRejected(p) ==
    /\ validateToolParams(p) # Null
    /\ todoResult' = <<"Error: ">> \o validateToolParams(p)
    /\ UNCHANGED <<todos, currentTodoId>>

\* createTodo
createTodo(p) ==
    LET id == IF p.todoId # Absent THEN p.todoId ELSE generateId(todoClock)
        todo == [id |-> id,
                 content |-> p.content,
                 status |-> IF p.status # "absent" THEN p.status ELSE "pending",
                 priority |-> IF p.priority # "absent" THEN p.priority ELSE "medium",
                 createdAt |-> todoClock,
                 updatedAt |-> todoClock]
    IN
    /\ todos' = IF todo.status = "in_progress"
                THEN clearOtherInProgress(MapSet(todos, todo), id, todoClock)
                ELSE MapSet(todos, todo)
    /\ currentTodoId' = IF todo.status = "in_progress" THEN id ELSE currentTodoId
    /\ todoResult' = <<"Created TODO: ">> \o todo.content \o <<todo.priority, todo.status>>

\* updateTodo
updateTodo(p) ==
    LET k == Position(todos, p.todoId) IN
    IF k = 0
    THEN /\ todoResult' = <<"TODO not found: ">> \o p.todoId
         /\ UNCHANGED <<todos, currentTodoId>>
    ELSE LET oldStatus == todos[k].status
             todo == [todos[k] EXCEPT
                         !.content = IF p.content # Absent THEN p.content ELSE @,
                         !.status = IF p.status # "absent" THEN p.status ELSE @,
                         !.priority = IF p.priority # "absent" THEN p.priority ELSE @,
                         !.updatedAt = todoClock]
             changed == p.status # "absent" /\ p.status # oldStatus
         IN
         /\ todos' = IF changed /\ p.status = "in_progress"
                     THEN clearOtherInProgress([todos EXCEPT ![k] = todo], p.todoId, todoClock)
                     ELSE [todos EXCEPT ![k] = todo]
         /\ currentTodoId' = IF changed /\ p.status = "in_progress" THEN p.todoId
                             ELSE IF changed /\ oldStatus = "in_progress" THEN Null
                             ELSE currentTodoId
         /\ todoResult' = <<"Updated TODO: ">> \o todo.content \o <<todo.status>>

\* deleteTodo
deleteTodo(p) ==
    LET k == Position(todos, p.todoId) IN
    IF k = 0
    THEN /\ todoResult' = <<"TODO not found: ">> \o p.todoId
         /\ UNCHANGED <<todos, currentTodoId>>
    ELSE /\ todos' = MapDelete(todos, p.todoId)
         /\ currentTodoId' = IF currentTodoId = p.todoId THEN Null ELSE currentTodoId
         /\ todoResult' = <<"Deleted TODO: ">> \o todos[k].content

\* listTodos: the result names the number of the stored todos.
listTodos ==
    /\ todoResult' = IF todos = <<>> THEN <<"No TODO items found.">>
                     ELSE <<"TODO List">> \o NumberText(Len(todos))
    /\ UNCHANGED <<todos, currentTodoId>>

\* clearCompleted
clearCompleted ==
    /\ todos' = SelectSeq(todos, LAMBDA todo : todo.status # "completed")
    /\ todoResult' = <<"Cleared">>
                       \o NumberText(Len(SelectSeq(todos, LAMBDA todo : todo.status = "completed")))
    /\ UNCHANGED currentTodoId

\* One call of execute, at a time later than the calls before it.
TodoExecute ==
    /\ todoClock < MaxTodoOps
    /\ todoClock' = todoClock + 1
    /\ \E p \in TodoParams :
          /\ todoCall' = [action |-> p.action, todoId |-> p.todoId, content |-> p.content]
          /\ \/ TodoRejected(p)
             \/ validateToolParams(p) = Null /\ p.action = "create" /\ createTodo(p)
             \/ validateToolParams(p) = Null /\ p.action = "update" /\ updateTodo(p)
             \/ validateToolParams(p) = Null /\ p.action = "delete" /\ deleteTodo(p)
             \/ validateToolParams(p) = Null /\ p.action = "list" /\ listTodos
             \/ validateToolParams(p) = Null /\ p.action = "clear" /\ clearCompleted
    /\ UNCHANGED otherSide

NextTodo == TodoExecute

SpecTodo == InitTodo /\ [][NextTodo]_vars

----------------------------------------------------------------------------
\* GitTool (specification SpecGit)

ReadOperations == {"status", "diff", "log", "branch"}
destructiveOperations ==
    {"add", "commit", "checkout", "pull", "push", "stash", "reset", "merge", "rebase"}
Operations == ReadOperations \cup destructiveOperations

\* The target directory of the tool, and the directory parameters: none, the
\* target directory, a directory beneath it, a sibling whose name starts
\* with the target's name, a path that leaves the target through "..",
\* another absolute directory, and a relative one.
targetDir == <<"/", "t">>
Directories ==
    {<<>>,
     <<"/", "t">>,
     <<"/", "t", "/", "s">>,
     <<"/", "t", "2">>,
     <<"/", "t", "/", ".", ".", "/", "o">>,
     <<"/", "o">>,
     <<".", ".", "/", "o">>}

\* The params of a call: an absent string is the empty string, an absent
\* array the empty array, which JavaScript's tests of them take alike.
GitParams ==
    [operation : Operations,
     files : {<<>>, <<"a">>, <<"a", "b">>},
     message : {"", "msg"},
     branch : {"", "main"},
     options : {<<>>, <<"-q", "-v">>},
     directory : Directories]

\* path.isAbsolute
isAbsolute(dir) == dir # <<>> /\ dir[1] = "/"

\* GitTool.validateToolParams: the message it returns, or null.
validateToolParamsGit(p) ==
    IF p.operation \notin Operations THEN "Invalid parameters for Git operation"
    ELSE IF p.operation = "commit" /\ p.message = ""
    THEN "Commit operation requires a message"
    ELSE IF p.operation \in {"checkout", "merge", "rebase"} /\ p.branch = "" /\ p.files = <<>>
    THEN "operation requires either a branch name or files"
    ELSE IF p.operation = "add" /\ p.files = <<>>
    THEN "Add operation requires files to be specified"
    ELSE IF p.directory # <<>> /\ ~isAbsolute(p.directory)
    THEN "Directory must be an absolute path"
    ELSE IF p.directory # <<>> /\ ~StartsWith(p.directory, targetDir)
    THEN "Directory must be within target directory"
    ELSE "null"

\* list.join(' ') as the pieces of the string, each item after a space.
RECURSIVE Spaced(_)
Spaced(list) ==
    IF list = <<>> THEN <<>> ELSE <<" ", Head(list)>> \o Spaced(Tail(list))

\* buildGitCommand: the pieces of the command string.
buildGitCommand(p) ==
    <<"git", " ", p.operation>>
    \o Spaced(p.options)
    \o (IF p.operation = "commit" /\ p.message # ""
        THEN <<" ", "-m", " ", "\"", p.message, "\"">> ELSE <<>>)
    \o (IF p.operation \in {"checkout", "branch", "merge", "rebase"} /\ p.branch # ""
        THEN <<" ", p.branch>> ELSE <<>>)
    \o (IF p.operation \in {"add", "commit", "checkout", "diff", "log"}
        THEN Spaced(p.files) ELSE <<>>)

\* Faulty variant of buildGitArgs: the files come before the branch.
buildGitArgsFilesFirst(p) ==
    <<p.operation>>
    \o p.options
    \o (IF p.operation = "commit" /\ p.message # "" THEN <<"-m", p.message>> ELSE <<>>)
    \o (IF p.operation \in {"add", "commit", "checkout", "diff", "log"}
        THEN p.files ELSE <<>>)
    \o (IF p.operation \in {"checkout", "branch", "merge", "rebase"} /\ p.branch # ""
        THEN <<p.branch>> ELSE <<>>)

\* buildGitArgs
buildGitArgs(p) ==
    <<p.operation>>
    \o p.options
    \o (IF p.operation = "commit" /\ p.message # "" THEN <<"-m", p.message>> ELSE <<>>)
    \o (IF p.operation \in {"checkout", "branch", "merge", "rebase"} /\ p.branch # ""
        THEN <<p.branch>> ELSE <<>>)
    \o (IF p.operation \in {"add", "commit", "checkout", "diff", "log"}
        THEN p.files ELSE <<>>)

\* shouldConfirmExecute: false, or the confirmation details.
shouldConfirmExecute(p) ==
    IF validateToolParamsGit(p) # "null"
    THEN [type |-> "false", rootCommand |-> "", command |-> <<>>]
    ELSE IF p.operation \in destructiveOperations
    THEN [type |-> "exec", rootCommand |-> "git", command |-> buildGitCommand(p)]
    ELSE [type |-> "false", rootCommand |-> "", command |-> <<>>]

Unasked == [type |-> "unasked", rootCommand |-> "", command |-> <<>>]
NoProcess == [state |-> "none", args |-> <<>>, cwd |-> <<>>]

\* The tool before a call.
GitIdle ==
    /\ gitParams = [operation |-> "none"]
    /\ gitPc = "idle"
    /\ gitSignal = [aborted |-> FALSE, listener |-> FALSE, before |-> ""]
    /\ gitProcess = NoProcess
    /\ gitPromise = "none"
    /\ gitResult = "none"
    /\ gitConfirmation = Unasked

InitGit ==
    /\ AdapterIdle
    /\ PipelineIdle
    /\ TodoIdle
    /\ gitParams \in GitParams
    /\ gitPc = "idle"
    /\ gitSignal = [aborted |-> FALSE, listener |-> FALSE, before |-> ""]
    /\ gitProcess = NoProcess
    /\ gitPromise = "none"
    /\ gitResult = "none"
    /\ gitConfirmation = Unasked
    /\ invocations = NoInvocations

nonGit == <<adapterSide, pipelineVars, todoVars, invocations>>

\* The scheduler asks whether the call needs a confirmation.
ShouldConfirmExecute ==
    /\ gitPc = "idle" /\ gitConfirmation = Unasked
    /\ gitConfirmation' = shouldConfirmExecute(gitParams)
    /\ UNCHANGED <<gitParams, gitPc, gitSignal, gitProcess, gitPromise, gitResult, nonGit>>

\* execute up to the await of executeGitCommand: the validation, and in
\* executeGitCommand the spawn and the registration of the listeners.
GitExecute ==
    /\ gitPc = "idle"
    /\ IF validateToolParamsGit(gitParams) # "null"
       THEN /\ gitResult' = "Error: validation"
            /\ gitPc' = "done"
            /\ UNCHANGED <<gitProcess, gitPromise, gitSignal>>
       ELSE /\ gitProcess' = [state |-> "running",
                              args |-> buildGitArgs(gitParams),
                              cwd |-> IF gitParams.directory # <<>>
                                      THEN gitParams.directory ELSE targetDir]
            /\ gitPromise' = "pending"
            /\ gitSignal' = [gitSignal EXCEPT !.listener = TRUE]
            /\ gitPc' = "awaiting"
            /\ UNCHANGED gitResult
    /\ UNCHANGED <<gitParams, gitConfirmation, nonGit>>

\* The close event of the git process, with exit code 0 or another.
GitClose ==
    /\ gitProcess.state \in {"running", "killed"}
    /\ gitProcess' = [gitProcess EXCEPT !.state = "closed"]
    /\ \E success \in BOOLEAN :
          /\ gitProcess.state = "killed" => ~success
          /\ gitPromise' = IF gitPromise # "pending" THEN gitPromise
                           ELSE IF success THEN "resolved: success"
                           ELSE "resolved: failure"
    /\ UNCHANGED <<gitParams, gitPc, gitSignal, gitResult, gitConfirmation, nonGit>>

\* The error event of the git process: it could not be spawned.
GitError ==
    /\ gitProcess.state = "running"
    /\ gitProcess' = [gitProcess EXCEPT !.state = "failed"]
    /\ gitPromise' = IF gitPromise = "pending" THEN "rejected: error" ELSE gitPromise
    /\ UNCHANGED <<gitParams, gitPc, gitSignal, gitResult, gitConfirmation, nonGit>>

\* The caller aborts the signal: the abort event reaches the listener that
\* is registered at that time, which kills the process and rejects.  The
\* signal remembers in which state the abort found the git process.
GitAbort ==
    /\ ~gitSignal.aborted
    /\ gitPc # "done"
    /\ gitSignal' = [gitSignal EXCEPT !.aborted = TRUE, !.before = gitProcess.state]
    /\ IF gitSignal.listener
       THEN /\ gitProcess' = IF gitProcess.state = "running"
                             THEN [gitProcess EXCEPT !.state = "killed"]
                             ELSE gitProcess
            /\ gitPromise' = IF gitPromise = "pending" THEN "rejected: aborted"
                             ELSE gitPromise
       ELSE UNCHANGED <<gitProcess, gitPromise>>
    /\ UNCHANGED <<gitParams, gitPc, gitResult, gitConfirmation, nonGit>>

\* execute after the await: the result for the settled promise.
GitReturn ==
    /\ gitPc = "awaiting"
    /\ gitPromise \notin {"none", "pending"}
    /\ gitResult' = IF gitPromise = "resolved: success" THEN "output"
                    ELSE IF gitPromise = "resolved: failure" THEN "Git failed"
                    ELSE IF gitPromise = "rejected: aborted"
                    THEN "Git operation failed: Git operation was aborted"
                    ELSE "Git operation failed: error"
    /\ gitPc' = "done"
    /\ UNCHANGED <<gitParams, gitSignal, gitProcess, gitPromise, gitConfirmation, nonGit>>

NextGit ==
    \/ ShouldConfirmExecute
    \/ GitExecute
    \/ GitClose
    \/ GitError
    \/ GitAbort
    \/ GitReturn

SpecGit == InitGit /\ [][NextGit]_vars

----------------------------------------------------------------------------
\* Invocations in flight at once on one adapter or one ReadManyFilesTool
\* (specification SpecInFlight)

\* The invocations that share the instance.
Invocations == {1, 2}

\* Faulty variant of OwnerOf: the accumulation buffer and the token
\* accumulator are fields of the instance, which its invocations share.
InstanceField(i) == 1

\* `let accumulatedContent = ''` in convertStreamToGeminiFormat and
\* `let totalTokens = 0` in executeWithSmartSelection declare variables of
\* the invocation: the one that invocation i reads and writes is its own.
OwnerOf(i) == i

Reply(tokens) == [i \in 1..Len(tokens) |-> [ch |-> tokens[i], at |-> i]]

\* The replies that are streamed side by side: a block or an inline marker
\* before or after text, and a block followed by an inline marker.
StreamedReplies ==
    {Reply(<<"FO", "J", "FC", "a">>),
     Reply(<<"a", "TO", "TB", "RB">>),
     Reply(<<"FO", "J", "FC", "TO", "TB", "RB">>)}

\* The layouts and the numbers of selected files of the budgeted reads that
\* run side by side; the selected files are the files 1..count.
ReadLayouts == {"large", "uneven"}
ReadCounts == {2, 3}

NewStream(c) ==
    [started |-> FALSE, content |-> c, pos |-> 0, history |-> <<>>, deltas |-> <<>>]
NewRead(l, n) ==
    [started |-> FALSE, layout |-> l, count |-> n, cursor |-> 1, steps |-> 0,
     contentParts |-> <<>>]

\* The number of function-call parts in deltas: the random draws made.
RECURSIVE CallCount(_)
CallCount(ds) ==
    IF ds = <<>> THEN 0 ELSE Len(CallsOf(Head(ds).parts)) + CallCount(Tail(ds))

\* One iteration of the loop of stage 4 on the file at position cursor, with
\* totalTokens = total before it: the content part it pushes, if any, the
\* position of the loop and totalTokens after it.
BudgetedRead(l, count, position, total) ==
    LET r == ReadResult(FileOf(l, position))
        contentTokens == estimateTokens(r.length)
        truncatedLength == Max({0, (maxTokenBudget - total) * 4})
    IN  IF r.isString /\ total + contentTokens > maxTokenBudget
        THEN [parts |-> <<ContentPart(position, Min({r.length, truncatedLength}), TRUE)>>,
              cursor |-> AfterTruncation(position, count),
              totalTokens |-> total]
        ELSE IF r.isString
        THEN [parts |-> <<ContentPart(position, r.length, FALSE)>>,
              cursor |-> position + 1,
              totalTokens |-> total + contentTokens]
        ELSE [parts |-> <<>>, cursor |-> position + 1, totalTokens |-> total]

InitInFlight ==
    /\ AdapterIdle
    /\ PipelineIdle
    /\ TodoIdle
    /\ gitParams = [operation |-> "none"] /\ gitPc = "idle"
    /\ gitSignal = [aborted |-> FALSE, listener |-> FALSE, before |-> ""]
    /\ gitProcess = NoProcess
    /\ gitPromise = "none" /\ gitResult = "none"
    /\ gitConfirmation = Unasked
    /\ \/ \E c1, c2 \in StreamedReplies :
             invocations = [kind |-> "streams", clock |-> 0,
                            calls |-> <<NewStream(c1), NewStream(c2)>>,
                            owned |-> <<<<>>, <<>>>>]
       \/ \E l1, l2 \in ReadLayouts : \E n1, n2 \in ReadCounts :
             invocations = [kind |-> "reads", clock |-> 0,
                            calls |-> <<NewRead(l1, n1), NewRead(l2, n2)>>,
                            owned |-> <<0, 0>>]

notInFlight == <<adapterSide, pipelineVars, todoVars, gitVars>>

\* convertStreamToGeminiFormat is entered: let accumulatedContent = ''.
BeginStream ==
    /\ invocations.kind = "streams"
    /\ \E i \in Invocations :
          /\ ~invocations.calls[i].started
          /\ invocations' = [invocations EXCEPT !.calls[i].started = TRUE,
                                                !.owned[OwnerOf(i)] = <<>>]
    /\ UNCHANGED notInFlight

\* One iteration of the for-await loop of one stream, on a chunk that
\* carries the next k tokens of its reply.
StreamChunk ==
    /\ invocations.kind = "streams"
    /\ \E i \in Invocations :
          LET call == invocations.calls[i] IN
          /\ call.started /\ Len(call.history) < MaxChunks
          /\ \E k \in 1..(Len(call.content) - call.pos) :
                LET delta == [content |-> SubSeq(call.content, call.pos + 1, call.pos + k),
                              reasoning |-> FALSE, tool_calls |-> <<>>]
                    r == HandleChunk(invocations.owned[OwnerOf(i)], delta,
                                     invocations.clock, CallCount(call.deltas))
                IN invocations' =
                      [invocations EXCEPT
                          !.clock = @ + 1,
                          !.owned[OwnerOf(i)] = r.acc,
                          !.calls[i].pos = @ + k,
                          !.calls[i].history =
                              Append(@, [delta |-> delta, time |-> invocations.clock]),
                          !.calls[i].deltas =
                              IF ShouldYield(r.parts)
                              THEN Append(@, [parts |-> r.parts, text |-> r.text])
                              ELSE @]
    /\ UNCHANGED notInFlight

\* Stage 4 of executeWithSmartSelection is entered: let totalTokens = 0.
BeginRead ==
    /\ invocations.kind = "reads"
    /\ \E i \in Invocations :
          /\ ~invocations.calls[i].started
          /\ invocations' = [invocations EXCEPT !.calls[i].started = TRUE,
                                                !.owned[OwnerOf(i)] = 0]
    /\ UNCHANGED notInFlight

\* One iteration of the loop of stage 4 of one run: the await of
\* processSingleFileContent and what follows it.
ReadFile ==
    /\ invocations.kind = "reads"
    /\ \E i \in Invocations :
          LET call == invocations.calls[i]
              r == BudgetedRead(call.layout, call.count, call.cursor,
                                invocations.owned[OwnerOf(i)])
          IN
          /\ call.started /\ call.cursor <= call.count
          /\ invocations' =
                [invocations EXCEPT
                    !.clock = @ + 1,
                    !.owned[OwnerOf(i)] = r.totalTokens,
                    !.calls[i].cursor = r.cursor,
                    !.calls[i].steps = @ + 1,
                    !.calls[i].contentParts = @ \o r.parts]
    /\ UNCHANGED notInFlight

NextInFlight ==
    \/ BeginStream
    \/ StreamChunk
    \/ BeginRead
    \/ ReadFile

SpecInFlight == InitInFlight /\ [][NextInFlight]_vars

----------------------------------------------------------------------------
\* Properties of the request side (specification SpecAdapter)

\* A request has reached the backend through generateContent or
\* generateContentStream.
RequestSent ==
    outcome.op \in {"generateContent", "generateContentStream"}
    /\ backendRequests # <<>>

BackendMessages == backendRequests[1].messages

\* The conversation turns of the backend message list.
Turns == SelectSeq(BackendMessages, LAMBDA m : m.role # "system")

\* C11: generateContent on a request with an empty message list throws a
\* ValidationError and sends nothing to the backend.
C11_EmptyRequestRejected ==
    (outcome.op = "generateContent" /\ ContentArray(request.contents) = <<>>)
    => /\ outcome.status = "thrown"
       /\ outcome.error = "ValidationError"
       /\ backendRequests = <<>>

\* C12: embedContent always throws, and the error it throws is of a class of
\* its own, neither the generic Error nor the backend's error.
C12_EmbedContentUnsupported ==
    outcome.op = "embedContent"
    => /\ outcome.status = "thrown"
       /\ outcome.error \notin {"Error", "APIError"}

\* The text of a system-role message of the request.
SystemTexts ==
    {extractTextFromParts(item.parts) :
        item \in {request.contents.items[k] : k \in 1..Len(request.contents.items)}
                   \cap {i \in Items : i.kind = "content" /\ i.role = "system"}}
    \cup (IF isContent(request.systemInstruction)
             /\ request.systemInstruction.role = "system"
          THEN {extractTextFromParts(request.systemInstruction.parts)}
          ELSE {})

\* C14: the content of every system-role message of the request is in a
\* system message of the backend request, and the system messages come before
\* every conversation turn.
C14_SystemContentPrepended ==
    RequestSent
    => /\ \A text \in SystemTexts :
             \E j \in 1..Len(BackendMessages) :
                 /\ BackendMessages[j].role = "system"
                 /\ BackendMessages[j].content = text
       /\ \A i, j \in 1..Len(BackendMessages) :
             (i < j /\ BackendMessages[j].role = "system")
             => BackendMessages[i].role = "system"

\* The request content k is a conversation message that stays: a user message
\* (a string or a user-role Content), or a model message with a text.
Stays(item) ==
    \/ item.kind = "string"
    \/ isContent(item) /\ item.role = "user"
    \/ isContent(item) /\ item.role = "model" /\ extractTextFromParts(item.parts) # <<>>

BackendRole(item) == IF isContent(item) /\ item.role = "model" THEN "assistant" ELSE "user"

TextOfItem(item) == IF item.kind = "string" THEN item.text
                    ELSE extractTextFromParts(item.parts)

\* C15: no backend turn is made of a model message with an empty text, and
\* the backend turns are the remaining user and model messages of the
\* request, one turn each, in the order of the request.  (An empty string in
\* the place of the contents is no message list.)
C15_EmptyModelDroppedOrderKept ==
    (RequestSent /\ ContentsTruthy(request.contents))
    => LET items == request.contents.items IN
       /\ \A j \in 1..Len(Turns) :
             /\ Turns[j].from \in 1..Len(items)
             /\ Stays(items[Turns[j].from])
             /\ Turns[j].role = BackendRole(items[Turns[j].from])
             /\ Turns[j].content = TextOfItem(items[Turns[j].from])
             /\ Turns[j].role = "assistant" => Turns[j].content # <<>>
       /\ \A i, j \in 1..Len(Turns) : i < j => Turns[i].from < Turns[j].from
       /\ \A k \in 1..Len(items) :
             Stays(items[k]) => \E j \in 1..Len(Turns) : Turns[j].from = k

\* A request with an empty model message followed by a message that stays
\* has been sent.
C15_Witness ==
    /\ RequestSent /\ outcome.op = "generateContent"
    /\ request.contents.shape = "array"
    /\ Len(request.contents.items) = 2
    /\ isContent(request.contents.items[1])
    /\ request.contents.items[1].role = "model"
    /\ extractTextFromParts(request.contents.items[1].parts) = <<>>
    /\ Stays(request.contents.items[2])
    /\ Len(Turns) = 1

\* The request declares at least one function.
DeclaresFunction ==
    /\ request.tools.present
    /\ \E k \in 1..Len(request.tools.list) :
          /\ request.tools.list[k].declares
          /\ request.tools.list[k].functionDeclarations # <<>>

\* C16: tools and tool_choice 'auto' are sent exactly when the request
\* declares a function.
C16_ToolsSentIffDeclared ==
    RequestSent
    => /\ backendRequests[1].tools.sent <=> DeclaresFunction
       /\ backendRequests[1].tool_choice.sent <=> DeclaresFunction
       /\ backendRequests[1].tool_choice.sent
            => backendRequests[1].tool_choice.value = <<"auto">>

----------------------------------------------------------------------------
\* Properties of countTokens (specification SpecCount)

\* The length of the text of the request contents: the texts of its items
\* and one blank between two items.
ContentsLength(contents) ==
    LET items == contents.items
        RECURSIVE Sum(_)
        Sum(k) == IF k > Len(items) THEN 0
                  ELSE (IF isContent(items[k]) \/ items[k].kind = "string"
                        THEN Len(TextOfItem(items[k])) ELSE 0)
                       + (IF k > 1 THEN 1 ELSE 0) + Sum(k + 1)
    IN IF ContentsTruthy(contents) THEN Sum(1) ELSE 0

\* C13: countTokens returns, and what it returns is the length L of the
\* contents' text divided by 4 and rounded up: 0 without contents or with
\* empty contents, 100 for one string of 400 characters; and the count of a
\* request never falls when one of its texts is lengthened.
C13_CountTokensCeilQuarter ==
    /\ [](outcome.op = "countTokens"
           => LET L == ContentsLength(request.contents) IN
              /\ outcome.status = "returned"
              /\ 4 * outcome.tokens >= L
              /\ 4 * outcome.tokens < L + 4
              /\ (request.contents.items = <<>>
                   \/ request.contents = SingleContents(StringItem(<<>>)))
                  => outcome.tokens = 0
              /\ request.contents = SingleContents(StringItem(FourHundred))
                  => outcome.tokens = 100)
    /\ [][request' # request => countTokens(request') >= countTokens(request)]_vars

\* The tokens of a lengthened text whose length is no multiple of 4 have
\* been counted.
C13_Witness ==
    /\ outcome.op = "countTokens"
    /\ request.contents = ArrayContents(<<StringItem(Hi \o <<"x">>), StringItem(Hi)>>)
    /\ outcome.tokens = 2

----------------------------------------------------------------------------
\* Properties of cancellation (specification SpecCancel)

\* C17: once the abort signal is raised, no further chunk is taken from the
\* backend stream and no further delta is yielded.
C17_NothingAfterCancel ==
    [][aborted => (chunks' = chunks /\ deltas' = deltas)]_vars

----------------------------------------------------------------------------
\* Properties of the file pipeline (specifications SpecPipeline, SpecDiscover)

\* The model's context window is low and more than 20 files are discovered.
LowCapacityManyFiles == tokenLimit(model) <= 131072 /\ fileCount > 20

\* The files the result accounts for, by a content part or a skip record.
Accounted ==
    {contentParts[k].file : k \in 1..Len(contentParts)}
    \cup {skippedFiles[k].file : k \in 1..Len(skippedFiles)}

\* C18: smart selection is entered only with a context window of at most
\* 131072 tokens and more than 20 discovered files; in every other case the
\* standard read is taken, and it processes every discovered file.
C18_SmartOnlyWhenLowCapacityAndMany ==
    path # "none"
    => /\ path \in {"smart", "regular"} => LowCapacityManyFiles
       /\ ~LowCapacityManyFiles => path = "standard"
       /\ path = "standard" => \A i \in 1..(cursor - 1) : i \in Accounted
       /\ (path = "standard" /\ pc = "done") => Accounted = 1..fileCount

\* A run on 21 files with grok-3-latest has entered smart selection and has
\* returned content.
C18_Witness ==
    /\ pc = "done" /\ fileCount = 21 /\ provider = "grok"
    /\ model = "grok-3-latest"
    /\ path = "smart"
    /\ contentParts # <<>>

\* C19: with provider grok, a Grok model name of the model configuration
\* and more than 20 discovered files, the pipeline takes smart selection.
C19_SmartForEveryGrokModel ==
    (provider = "grok" /\ model \in GrokModels /\ fileCount > 20 /\ path # "none")
    => path \in {"smart", "regular"}

\* The integers that appear in the reply.
ReplyNumbers ==
    [k \in 1..Len(DigitRuns(responseText)) |-> parseInt(DigitRuns(responseText)[k])]

FirstOccurrence(num) ==
    Min({k \in 1..Len(ReplyNumbers) : ReplyNumbers[k] = num})

\* The reply "I'd pick 2, 5 and 9".
PickReply ==
    <<"I", "'", "d", " ", "p", "i", "c", "k", " ", "2", ",", " ", "5", " ",
      "a", "n", "d", " ", "9">>

\* C20: the files selected from the reply are candidates whose number is an
\* integer of the reply within the previewed range, none twice, at most 20,
\* in the order of their first occurrence in the reply; "I'd pick 2, 5 and 9"
\* selects 2, 5 and 9.
C20_SelectionFromReply ==
    (path = "smart" /\ pc \in {"budgeted", "done"}
       /\ SelectedFromReply(responseText, fileCount) # <<>>)
    => /\ \A j \in 1..Len(selectedFiles) :
             /\ \E k \in 1..Len(ReplyNumbers) : ReplyNumbers[k] = selectedFiles[j]
             /\ selectedFiles[j] >= 1
             /\ selectedFiles[j] <= Min({fileCount, 100})
       /\ \A i, j \in 1..Len(selectedFiles) :
             i < j => /\ selectedFiles[i] # selectedFiles[j]
                      /\ FirstOccurrence(selectedFiles[i]) < FirstOccurrence(selectedFiles[j])
       /\ Len(selectedFiles) <= 20
       /\ responseText = PickReply => selectedFiles = <<2, 5, 9>>

\* The files execute has read, and whether it has called a collaborator.
Reads == {e.file : e \in {x \in effects : x.op = "read"}}
Made(op) == \E e \in effects : e.op = op

\* The integers of the reply that number a previewed candidate.
UsableNumbers ==
    LET runs == DigitRuns(responseText) IN
    {k \in 1..Len(runs) :
        LET num == parseInt(runs[k]) IN num >= 1 /\ num <= Min({fileCount, 100})}

\* C21: when the reply of the Choose stage has no number of a candidate
\* (empty, no digits, only numbers out of range), the pipeline stays on the
\* smart path, selects exactly the first 10 candidates in sort order and
\* reads those: all of them unless the budget or the signal stops the loop.
C21_FirstTenWhenNothingUsable ==
    (path = "smart" /\ pc \in {"budgeted", "done"} /\ UsableNumbers = {})
    => /\ selectedFiles = [k \in 1..10 |-> k]
       /\ Reads \subseteq 1..10
       /\ pc = "done" => result.kind = "smart"
       /\ (pc = "done" /\ ~signal
             /\ \A k \in 1..Len(contentParts) : ~contentParts[k].truncated)
          => Reads = 1..10

\* The reply "40" on 21 candidates: the first ten files have been read.
C21_Witness ==
    /\ pc = "done" /\ path = "smart" /\ fileCount = 21
    /\ responseText = <<"4", "0">>
    /\ Reads = 1..10
    /\ Len(contentParts) = 10

\* The length of the string a content part of the budgeted read is pushed
\* as: the separator "--- {filePath} ---", two line breaks, the content, two
\* line breaks, and after truncated content the marker and two line breaks.
MarkerLength == 39
AppendedLength(part) ==
    8 + Len(RelativePath(entries, part.file)) + 2 + part.length + 2
    + (IF part.truncated THEN MarkerLength + 2 ELSE 0)

RECURSIVE AppendedChars(_)
AppendedChars(parts) ==
    IF parts = <<>> THEN 0
    ELSE AppendedLength(Head(parts)) + AppendedChars(Tail(parts))

\* C22: at every point of the budgeted read, the estimated tokens of all the
\* content appended to the result so far are at most the budget of 100000.
C22_AppendedWithinBudget ==
    (path = "smart" /\ pc \in {"budgeted", "done"})
    => estimateTokens(AppendedChars(contentParts)) <= 100000

\* The estimated tokens of the content of the first n content parts.
RECURSIVE ContentTokens(_, _)
ContentTokens(parts, n) ==
    IF n = 0 THEN 0
    ELSE ContentTokens(parts, n - 1) + estimateTokens(parts[n].length)

\* C23: in the budgeted read the first selected file whose estimated tokens
\* would push the running total over the budget is cut to the remaining
\* budget and appended with the truncation marker; it is the last file read:
\* there is at most one truncated part, it is the final content part, the
\* parts before it are whole and within the budget, and no selected file
\* after it is read or appended.
C23_TruncatedFileIsLast ==
    (path = "smart" /\ pc \in {"budgeted", "done"})
    => \A k \in 1..Len(contentParts) :
          LET part == contentParts[k]
              whole == ReadResult(FileOf(layout, part.file)).length
              before == ContentTokens(contentParts, k - 1)
          IN IF part.truncated
             THEN /\ k = Len(contentParts)
                  /\ before + estimateTokens(whole) > 100000
                  /\ part.length = (100000 - before) * 4
                  /\ part.length < whole
                  /\ cursor > Len(selectedFiles)
                  /\ \E p \in 1..Len(selectedFiles) :
                        /\ selectedFiles[p] = part.file
                        /\ Reads = {selectedFiles[j] : j \in 1..p}
             ELSE /\ part.length = whole
                  /\ before + estimateTokens(whole) <= 100000

\* A budgeted read of twenty selected files has appended two whole files
\* and has cut the third to the 199992 characters that were left.
C23_Witness ==
    /\ pc = "done" /\ path = "smart" /\ layout = "uneven"
    /\ Len(selectedFiles) = 20
    /\ Len(contentParts) = 3
    /\ contentParts[3].truncated
    /\ contentParts[3].length = 199992
    /\ Reads = {1, 2, 3}

\* The files createFilePreview has read.
Previews == {e.file : e \in {x \in effects : x.op = "preview"}}

\* A failure has occurred on the smart path: the preview of a candidate
\* could not be read, or the read of a selected file has failed.
PreviewReadFailed ==
    \E file \in Previews : FileOf(layout, file).error
FileReadFailed ==
    \E file \in Reads : FileOf(layout, file).error

\* C24: after any failure on the smart path (the backend call of Choose, a
\* preview read, a file read) execute returns the plain read of the first 10
\* candidates, labelled as fallback output.
C24_AnyFailureFallsBack ==
    (pc = "done" /\ path \in {"smart", "regular"}
       /\ (PreviewReadFailed \/ FileReadFailed \/ path = "regular"))
    => /\ result.kind = "fallback"
       /\ selectedFiles = [k \in 1..10 |-> k]
       /\ totalTokens = 0

\* A step of execute itself, and a bound on the steps execute has left.
Progress ==
    \/ Discover
    \/ Decide
    \/ StandardReadFile
    \/ Choose
    \/ BudgetedReadFile
    \/ RegularReadFile
    \/ ReturnResult
Stride == MaxFiles + 3
Remaining ==
    IF pc = "called" THEN 3 * Stride
    ELSE IF pc = "discovered" THEN 2 * Stride
    ELSE IF pc = "choose" THEN Stride
    ELSE IF pc = "standard" THEN 2 + fileCount - cursor
    ELSE IF pc \in {"budgeted", "regular"} THEN 2 + Len(selectedFiles) - cursor
    ELSE 0

\* C25: every invocation of execute ends by returning a result and never
\* throws: no exception leaves it, it can always take a next step until it
\* has returned, every step of it brings the return nearer, and when it has
\* returned there is a result.
C25_ReturnsNeverThrows ==
    /\ [](/\ pc # "thrown"
          /\ pc = "done" <=> result.kind # "none"
          /\ Remaining >= 0
          /\ pc # "done" => ENABLED Progress)
    /\ [][signal' = signal => Remaining' < Remaining]_vars

\* execute has returned from a budgeted read that the budget has ended, on
\* a target directory with a file of a sibling directory.
C25_Witness ==
    /\ pc = "done" /\ result.kind = "smart" /\ layout = "uneven"
    /\ Len(contentParts) = 3 /\ contentParts[3].truncated
    /\ "sibling" \in entries.strays

\* The candidates glob has discovered: the files that are considered, and the
\* strays that are not.
Candidates ==
    (1..fileCount)
    \cup (IF "outside" \in entries.strays THEN {Outside} ELSE {})
    \cup (IF "ignored" \in entries.strays THEN {Ignored} ELSE {})

\* The candidates whose whole content is in the content parts, and those the
\* returned result has a skip record of.
WholeInContent ==
    {contentParts[k].file : k \in {j \in 1..Len(contentParts) : ~contentParts[j].truncated}}
Reported == {result.skipped[k].file : k \in 1..Len(result.skipped)}

\* C26: on every path, each discovered candidate whose whole content is not
\* in the returned content parts is reported in the result with its path
\* and a reason.
C26_EveryOmissionReported ==
    (pc = "done" /\ result.kind \in {"content", "smart", "fallback"})
    => \A file \in Candidates : file \in WholeInContent \/ file \in Reported

\* A path lies inside the target directory: it is the directory or goes on
\* after it with a path separator.
InsideRoot(text) == text = Root \/ StartsWith(text, Root \o <<"/">>)

\* C27: every file whose content execute reads lies inside the target
\* directory; a discovered path outside of it, a sibling directory whose
\* name starts with the target directory's name included, is never read and
\* is reported as skipped with a security reason.
C27_ReadsInsideRoot ==
    /\ \A file \in Reads \cup Previews : InsideRoot(AbsolutePath(entries, file))
    /\ (pc # "called" /\ result.kind \notin {"validation error", "search error"})
       => /\ fileCount = entries.regular
          /\ Len(SelectSeq(skippedFiles, LAMBDA r : r.reason = "security"))
                = Cardinality({s \in entries.strays : ~InsideRoot(StrayPath(s))})

\* paths is missing, not an array or empty, or one of its entries is not a
\* non-empty string.
PathsMalformed ==
    \/ params.paths.kind # "array"
    \/ params.paths.items = <<>>
    \/ \E k \in 1..Len(params.paths.items) :
          \/ ~params.paths.items[k].isString
          \/ \A j \in 1..Len(params.paths.items[k].text) :
                params.paths.items[k].text[j] = " "

\* C28: execute called with missing, non-array or empty paths, or with a
\* paths entry that is not a non-empty string, returns a validation error
\* at once: no file discovery, no file read and no backend call is made.
C28_ValidationErrorWithoutEffects ==
    /\ []((PathsMalformed /\ pc # "called")
            => /\ pc = "done"
               /\ result.kind = "validation error"
               /\ effects = {}
               /\ contentParts = <<>>)
    /\ [][(PathsMalformed /\ pc = "called" /\ signal' = signal)
            => (pc' = "done" /\ result'.kind = "validation error")]_vars

\* execute has returned the validation error for paths whose only entry is
\* a blank string.
C28_Witness ==
    /\ pc = "done" /\ result.kind = "validation error"
    /\ params.paths.items = <<BlankString>>
    /\ effects = {}

\* C29: in the reading loops of the standard, the budgeted and the fallback
\* read the cancellation signal is checked before each file: once the signal
\* is aborted, no further file is read.
C29_NoReadAfterAbort ==
    [][(signal /\ pc \in {"standard", "budgeted", "regular"}) => Reads' = Reads]_vars

----------------------------------------------------------------------------
\* Properties of TodoManagerTool (specification SpecTodo)

InProgress == {k \in 1..Len(todos) : todos[k].status = "in_progress"}

\* C30: after any sequence of create, update, delete, list and clear actions
\* on one TodoManagerTool, a create with a stored id included, at most one
\* stored todo has status in_progress.
C30_AtMostOneInProgress == Cardinality(InProgress) <= 1

\* Two todos were created in progress, and then the first was created again
\* in progress under its stored id: the second has been reset to pending.
C30_Witness ==
    /\ Len(todos) = 2
    /\ todos[1].id = T1 /\ todos[2].id = T2
    /\ todos[1].status = "in_progress"
    /\ todos[1].createdAt > todos[2].createdAt
    /\ todos[2].status = "pending"
    /\ todos[2].updatedAt = todos[1].createdAt
    /\ currentTodoId = T1

\* C31: after execute is called with an action outside create, update,
\* delete, list and clear, the llmContent of its result is exactly
\* 'Unknown action: <action>' (the stored todos are those before the call).
C31_UnknownActionResult ==
    todoCall.action \notin KnownActions \cup {"none"}
    => todoResult = <<"Unknown action: ", todoCall.action>>

\* The todo with an id is stored.
Stored(id) == \E k \in 1..Len(todos) : todos[k].id = id

\* C32: a call of execute with action update or delete and a todoId that is
\* not stored returns 'TODO not found: <id>' and leaves the todos, the fields
\* of each and the current-todo pointer as they were; a call that validation
\* rejects (create without content, update or delete without todoId) leaves
\* them as they were too.
C32_NotFoundAndRejectedChangeNothing ==
    [][todoClock' # todoClock
         => /\ (/\ todoCall'.action \in {"update", "delete"}
                /\ todoCall'.todoId # <<>>
                /\ ~Stored(todoCall'.todoId))
               => /\ todoResult' = <<"TODO not found: ">> \o todoCall'.todoId
                  /\ todos' = todos
                  /\ currentTodoId' = currentTodoId
            /\ (\/ todoCall'.action = "create" /\ todoCall'.content = <<>>
                \/ todoCall'.action \in {"update", "delete"} /\ todoCall'.todoId = <<>>)
               => /\ todos' = todos
                  /\ currentTodoId' = currentTodoId
                  /\ todoResult'[1] = "Error: "]_vars

\* An update of t2 has not found it: t1, in progress, is stored as before.
C32_Witness ==
    /\ todoCall.action = "update" /\ todoCall.todoId = T2
    /\ todoResult = <<"TODO not found: ", "t", "2">>
    /\ Len(todos) = 1 /\ todos[1].id = T1
    /\ todos[1].status = "in_progress"
    /\ todos[1].updatedAt = todos[1].createdAt
    /\ currentTodoId = T1

\* getCurrentTodo: the position of the todo it returns, 0 for null.
getCurrentTodo ==
    IF currentTodoId # <<>> THEN Position(todos, currentTodoId) ELSE 0

\* C39: after any sequence of actions getCurrentTodo returns null or a stored
\* todo whose status is in_progress, and whenever a stored todo is
\* in_progress getCurrentTodo returns that todo.
C39_CurrentTodoIsTheOneInProgress ==
    /\ getCurrentTodo # 0 => todos[getCurrentTodo].status = "in_progress"
    /\ \A k \in InProgress : getCurrentTodo = k

----------------------------------------------------------------------------
\* Properties of GitTool (specification SpecGit)

GitValid == validateToolParamsGit(gitParams) = "null"

\* The call modifies the repository: one of the nine operations that change
\* the index, the work tree, the refs or the remote, or branch with a
\* branch name, which buildGitArgs passes on and git creates.
ModifiesRepository ==
    \/ gitParams.operation \in {"add", "commit", "checkout", "pull", "push",
                                "stash", "reset", "merge", "rebase"}
    \/ gitParams.operation = "branch" /\ gitParams.branch # ""

\* C33: shouldConfirmExecute returns false for status, diff, log and branch
\* and for params that fail validation, and confirmation details of type
\* exec with root command git for every valid add, commit, checkout, pull,
\* push, stash, reset, merge or rebase; no operation that modifies the
\* repository goes without confirmation.
C33_ConfirmationBeforeModification ==
    gitConfirmation.type # "unasked"
    => /\ (gitParams.operation \in {"status", "diff", "log"} \/ ~GitValid)
             => gitConfirmation.type = "false"
       /\ (GitValid /\ gitParams.operation \in {"add", "commit", "checkout", "pull",
                                                "push", "stash", "reset", "merge", "rebase"})
             => gitConfirmation.type = "exec" /\ gitConfirmation.rootCommand = "git"
       /\ (GitValid /\ ModifiesRepository) => gitConfirmation.type = "exec"

\* The segments of a path: the pieces between its separators.
RECURSIVE PathSegments(_, _)
PathSegments(dir, current) ==
    LET done == IF current = <<>> THEN <<>> ELSE <<current>>
    IN  IF dir = <<>> THEN done
        ELSE IF Head(dir) = "/" THEN done \o PathSegments(Tail(dir), <<>>)
        ELSE PathSegments(Tail(dir), Append(current, Head(dir)))

\* The directory the segments lead to: "." stays, ".." goes to the parent.
RECURSIVE Resolved(_, _)
Resolved(segments, reached) ==
    IF segments = <<>> THEN reached
    ELSE IF Head(segments) = <<".">> THEN Resolved(Tail(segments), reached)
    ELSE IF Head(segments) = <<".", ".">>
    THEN Resolved(Tail(segments),
                  IF reached = <<>> THEN <<>>
                  ELSE SubSeq(reached, 1, Len(reached) - 1))
    ELSE Resolved(Tail(segments), Append(reached, Head(segments)))

\* The directory an absolute path denotes, as the names from the root down.
Denoted(dir) == Resolved(PathSegments(dir, <<>>), <<>>)

\* The path denotes the target directory or a directory beneath it.
WithinTarget(dir) ==
    isAbsolute(dir) /\ StartsWith(Denoted(dir), Denoted(targetDir))

\* C34: every directory parameter that validateToolParams accepts denotes
\* the target directory or a directory beneath it, so git is spawned only
\* there; and when the params are rejected execute spawns no git process.
C34_AcceptedDirectoryWithinTarget ==
    /\ (gitPc # "idle" /\ GitValid /\ gitParams.directory # <<>>)
          => WithinTarget(gitParams.directory)
    /\ gitProcess.state # "none" => WithinTarget(gitProcess.cwd)
    /\ (gitPc # "idle" /\ ~GitValid) => gitProcess.state = "none"

\* C35: when the signal is aborted before the git process has closed, be it
\* before execute is called or while git runs, no git process stays running
\* and execute resolves with the result that says the operation was aborted.
C35_AbortBeforeCloseKillsAndReports ==
    (GitValid /\ gitSignal.before \in {"none", "running"})
       => /\ gitProcess.state # "running"
          /\ gitPc = "done"
                => gitResult = "Git operation failed: Git operation was aborted"

\* The words of a command string: the pieces after "git" that are neither a
\* space nor a quotation mark.
Words(command) ==
    LET Word(piece) == piece \notin {" ", "\""}
    IN  SelectSeq(Tail(command), Word)

\* C40: for valid params the command that buildGitCommand shows names the
\* operation, options, message, branch and files that buildGitArgs passes to
\* git, in the same order; so the command of a confirmation is the argument
\* list of the process that execute spawns.
C40_ShownCommandIsSpawnedCommand ==
    /\ GitValid => Words(buildGitCommand(gitParams)) = buildGitArgs(gitParams)
    /\ (gitConfirmation.type = "exec" /\ gitProcess.state # "none")
          => Words(gitConfirmation.command) = gitProcess.args

C40_Witness ==
    /\ gitConfirmation.type = "exec"
    /\ gitProcess.state = "running"
    /\ gitParams.operation = "checkout"
    /\ gitParams.branch = "main"
    /\ gitParams.files = <<"a", "b">>
    /\ gitParams.options # <<>>
    /\ gitProcess.args = <<"checkout", "-q", "-v", "main", "a", "b">>

----------------------------------------------------------------------------
\* Properties of the markers in a stream and in a reply (specification Spec)

\* The token that closes the marker that the token ch opens.
ClosingOf(ch) == IF ch = "FO" THEN "FC" ELSE "RB"

\* The marker that opens at position i of the reply is complete in the
\* first n tokens of the reply.
CompleteWithin(i, n) ==
    \E e \in (i + 1)..n : content[e].ch = ClosingOf(content[i].ch)

\* C36: every FunctionCall that the stream has yielded for a block or an
\* inline marker belongs to a marker whose closing token has arrived; while
\* only the opening part of a marker has arrived, no FunctionCall is yielded
\* for it.
C36_CallOnlyForCompleteMarker ==
    \A k \in 1..Len(YieldedCalls) :
        YieldedCalls[k].src > 0 => CompleteWithin(YieldedCalls[k].src, pos)

\* A chunk has been handled that left the opening of an inline marker in the
\* accumulation buffer, the rest of the marker is still to arrive, and no
\* FunctionCall was yielded for it.
C36_Witness ==
    /\ chunks > 0 /\ pos < Len(content)
    /\ content[pos + 1].ch \in {"TB", "RB"}
    /\ \E i \in 1..Len(accumulatedContent) :
          /\ accumulatedContent[i].ch = "TO"
          /\ ~CompleteWithin(accumulatedContent[i].at, pos)
          /\ \A k \in 1..Len(YieldedCalls) :
                YieldedCalls[k].src # accumulatedContent[i].at

\* C37: the text that convertToGeminiResponse returns holds no complete
\* [function_call]...[/function_call] block and no [tool_call: ...] marker,
\* whatever markers the reply holds.
C37_VisibleTextHoldsNoMarker ==
    response.made
       => /\ FunctionCallMatches(response.text) = <<>>
          /\ ToolCallMatches(response.text) = <<>>

----------------------------------------------------------------------------
\* Properties of invocations in flight at once (specification SpecInFlight)

\* The deltas a stream yields for the chunks of history when it runs alone.
RECURSIVE StreamAlone(_, _, _)
StreamAlone(history, acc, ds) ==
    IF history = <<>> THEN ds
    ELSE LET r == HandleChunk(acc, Head(history).delta, Head(history).time,
                              CallCount(ds))
         IN StreamAlone(Tail(history), r.acc,
                        IF ShouldYield(r.parts)
                        THEN Append(ds, [parts |-> r.parts, text |-> r.text])
                        ELSE ds)

\* The content parts and the token total of a budgeted read that runs alone,
\* after the given number of iterations of its loop.
RECURSIVE ReadAlone(_, _, _, _, _, _)
ReadAlone(l, count, steps, position, total, parts) ==
    IF steps = 0 THEN [contentParts |-> parts, totalTokens |-> total]
    ELSE LET r == BudgetedRead(l, count, position, total)
         IN ReadAlone(l, count, steps - 1, r.cursor, r.totalTokens, parts \o r.parts)

\* C38: with two streams or two budgeted reads in flight on one instance and
\* their steps interleaved in any order, the deltas (and the FunctionCalls in
\* them) of each stream and the content parts and the token total of each
\* read are those of the same invocation running alone.
C38_InvocationsDoNotInterfere ==
    /\ invocations.kind = "streams"
          => \A i \in Invocations :
                invocations.calls[i].deltas
                   = StreamAlone(invocations.calls[i].history, <<>>, <<>>)
    /\ invocations.kind = "reads"
          => \A i \in Invocations :
                LET call == invocations.calls[i]
                    alone == ReadAlone(call.layout, call.count, call.steps, 1, 0, <<>>)
                IN  call.started
                       => /\ call.contentParts = alone.contentParts
                          /\ invocations.owned[OwnerOf(i)] = alone.totalTokens

\* Two streams whose chunks alternate: the first stream's marker began in a
\* chunk before a chunk of the second stream and was completed after it, and
\* the FunctionCall of the marker was yielded.
C38_Witness ==
    /\ invocations.kind = "streams"
    /\ Len(invocations.calls[1].history) >= 2
    /\ Len(invocations.calls[2].history) >= 2
    /\ invocations.calls[1].history[1].time < invocations.calls[2].history[1].time
    /\ invocations.calls[2].history[1].time < invocations.calls[1].history[2].time
    /\ invocations.calls[1].history[2].time < invocations.calls[2].history[2].time
    /\ invocations.calls[1].history[1].delta.content = Reply(<<"FO", "J">>)
    /\ CallCount(invocations.calls[1].deltas) = 1
    /\ CallCount(invocations.calls[2].deltas) >= 1

====
